---- MODULE Spec2Model ----
(***************************************************************************)
(* A model of the AI-PBX gateway: the AMI call tracker and its call store, *)
(* the AMI and ARI connection supervisors, the ARI voice pipeline and the  *)
(* transcription job runner.                                               *)
(*                                                                         *)
(* Node.js runs one macrotask (a socket chunk, a timer, an I/O completion) *)
(* at a time and drains the FIFO microtask queue after it.  An `await` of  *)
(* a settled promise puts the continuation at the tail of that queue, so a *)
(* handler whose awaits are all store calls (sql.js is synchronous behind  *)
(* `await getDatabase()`) is a chain of segments, each re-queued at the    *)
(* tail.  Event emitters dispatch synchronously: the events of one socket  *)
(* chunk all start their handlers before any microtask runs.               *)
(***************************************************************************)
EXTENDS Integers, Sequences, FiniteSets, TLC

\* ------------------------------------------------------------------ bounds
MaxEvents == 4
MaxClock == 2
MaxConns == 4
MaxJobs == 2
MaxCalls == 3
MaxAriEvents == 4
MaxShutdownEvents == 3
MaxDialEvents == 3
MaxUnmatchedEvents == 3

\* --------------------------------------------------------------- constants
AnsweredState == 6
ConfiguredMaxAttempts == 3
MsPerSecond == 1000

UniqueIds == {"u1", "u2"}
ChannelStates == {4, AnsweredState}
HangupCauses == {16, 21}
\* Offsets of the process's local time zone from UTC, in seconds east.
TzOffsets == {-3600, 0}

\* SQL NULL / JS undefined, and a present value.
NULL == {}
Some(v) == {v}
Val(s) == CHOOSE x \in s : TRUE

VARIABLES
    \* call store (sql.js tables)
    calls,          \* rows of table calls, in rowid order
    callEvents,     \* rows of table call_events, as <<call_id, event_type>>
    \* AMIClient (tracker part)
    activeCalls,    \* Map uniqueId -> {id, ...} (NULL: no entry)
    mq,             \* the microtask queue: suspended handler continuations
    inChunk,        \* the emitter is still dispatching the current chunk
    errors,         \* exceptions caught (and logged) by a handler's try/catch
    \* environment
    now,            \* wall clock, milliseconds since the epoch
    tz,             \* the process's time zone offset, from the first time
                    \* a date is parsed (NULL: not read yet)
    \* history
    delivered,      \* per uniqueId, how far the events delivered so far match
                    \* channel-created+, state-changed(answered), hangup
    resolved,       \* uniqueIds whose duplicate creation found the record
    nEvents,
    \* the two connection supervisors (AMIClient, ARIClient); they share no
    \* field, so a run follows one of them
    followed,
    sup,            \* per client: isConnected, reconnectAttempts,
                    \* reconnectTimer (the timer the field refers to is
                    \* pending), timers (retry timers pending),
                    \* shouldReconnect
    maxReconnectAttempts,   \* MAX_RECONNECT_ATTEMPTS (0: unlimited)
    amiCtorThrows,  \* the configured AMI port makes `new AsteriskManager` throw
    amiConns,       \* every AsteriskManager instance created so far
    amiCur,         \* this.ami (0: null)
    ariPending,     \* ARI.connect() promises in flight
    ariClients,     \* every ari client object obtained so far
    ariCur,         \* this.ari (0: null)
    ariStop,        \* ARIClient.disconnect(): "no", "stopping", "done"
    \* history of the supervisors
    started,        \* per client, connect() calls so far
    failures,       \* per client, failed attempts the client was told of
    everConnected,  \* per client, an attempt has succeeded
    stopInfo,       \* per client, what stop() cancelled and what came after
    \* the process (index.js)
    emitted,        \* the events the followed client emitted in the last step
    shutdown,       \* gateway.shutdown(): who called it, and its exit code
    exit,           \* the code process.exit was called with
    \* the transcription job runner (AIProcessor, TranscriptionRepository)
    jobs,           \* the transcriptions table, a row's id is its index
    jq,             \* the repository calls waiting at `await getDatabase()`
    delays,         \* processRecording invocations waiting for their timer
    nCalls,         \* calls made from outside so far
    retryState,     \* retryFailed(): "idle", "running", "returned", "rejected"
    retrySnapshot,  \* the ids that were pending when retryFailed() was called
    rejections,     \* repository calls whose promise rejected
    results,        \* what the processRecording invocations returned
    \* the voice pipeline (ARIClient)
    activeChannels, \* the Map, its entries in insertion order
    inflight,       \* commands awaited by a handler, and armed timers
    issued,         \* the hangup or stop-recording command the last step
                    \* issued, if any; their results are ignored
    recordings,     \* recording names a record command was issued for
    triggered,      \* transcription ids handed to triggerAIProcessing
    ptime,          \* Date.now() as startRecording last read it (0: never)
    nStart,         \* StasisStart events so far (the next session's identity)
    nPlay,          \* playback ids generated so far
    nOther,         \* other ARI events so far that found their session
    shut,           \* ARIClient.disconnect(): its phase, how many entries
                    \* the iterator of its for...of loop has passed, and the
                    \* channels it has called hangupChannel for
    limits,         \* of a run: ARI events, StasisStart events, AMI events,
                    \* and whether the run keeps the ignored events
    ignored         \* the finished events that found no session

envV == <<now, tz>>
histV == <<delivered, resolved, nEvents>>
trackerVars == <<calls, callEvents, activeCalls, mq, inChunk, errors, envV,
                 histV>>

supCfg == <<followed, maxReconnectAttempts, amiCtorThrows>>

procV == <<shutdown, exit>>

supVars == <<followed, sup, maxReconnectAttempts, amiCtorThrows, amiConns, amiCur,
             ariPending, ariClients, ariCur, ariStop, started, failures,
             everConnected, stopInfo, emitted, procV>>

jobHist == <<rejections, results>>
jobVars == <<jobs, jq, delays, nCalls, retryState, retrySnapshot, jobHist>>

pipeVars == <<activeChannels, inflight, issued, recordings, triggered, ptime,
              nStart, nPlay, nOther, shut, limits, ignored>>

\* Everything outside the call tracker, outside the supervisors, outside
\* the job runner, outside the pipeline.
supV == <<supVars, jobVars, pipeVars>>
outsideSup == <<trackerVars, jobVars, pipeVars>>
outsideJobs == <<trackerVars, supVars, pipeVars>>
outsidePipe == <<callEvents, activeCalls, mq, inChunk, errors, envV, histV,
                 supVars, jq, delays, nCalls, retryState, retrySnapshot,
                 jobHist>>

vars == <<trackerVars, supVars, jobVars, pipeVars>>

\* ------------------------------------------------------------- call store

\* SQLite datetime('now'): the UTC wall clock as text with whole seconds.
SqlDatetimeNow(nowMs) == nowMs \div MsPerSecond

\* new Date('YYYY-MM-DD HH:MM:SS'): a date-time without an offset is read as
\* local time, so the UTC text the store wrote is shifted by the zone offset.
JsDateParse(text, offset) == (text - offset) * MsPerSecond

RowsOf(rows, uid) == {i \in DOMAIN rows : rows[i].unique_id = uid}

\* (the calls table without its UNIQUE constraint)
UniqueViolation_none(rows, uid) == FALSE

\* unique_id TEXT UNIQUE NOT NULL
UniqueViolation(rows, uid) == RowsOf(rows, uid) # {}

NewRow(rows, uid, state) ==
    [id |-> Len(rows) + 1, unique_id |-> uid, call_state |-> state,
     answer_time |-> NULL, end_time |-> NULL, duration_seconds |-> NULL,
     hangup_cause |-> NULL, hangup_cause_txt |-> NULL]

getCallByUniqueId(rows, uid) ==
    IF RowsOf(rows, uid) = {} THEN NULL
    ELSE Some(rows[CHOOSE i \in RowsOf(rows, uid) :
                     \A j \in RowsOf(rows, uid) : i <= j])

\* The INSERT of createCall: the new table and the new row's id, or the
\* UNIQUE constraint's error.
createCall(rows, uid, state) ==
    IF UniqueViolation(rows, uid)
    THEN [ok |-> FALSE, rows |-> rows, id |-> NULL]
    ELSE [ok |-> TRUE, rows |-> Append(rows, NewRow(rows, uid, state)),
          id |-> Some(Len(rows) + 1)]

updateCallAnswered(rows, uid, nowMs) ==
    [i \in DOMAIN rows |->
        IF rows[i].unique_id = uid
        THEN [rows[i] EXCEPT !.answer_time = Some(SqlDatetimeNow(nowMs)),
                             !.call_state = "answered"]
        ELSE rows[i]]

CauseTxt(cause) == IF cause = 16 THEN "Normal Clearing" ELSE "Call Rejected"

durationSeconds(call, nowMs, offset) ==
    IF call.answer_time # NULL
    THEN (nowMs - JsDateParse(Val(call.answer_time), offset)) \div MsPerSecond
    ELSE 0

\* (the UPDATE of updateCallEnded without the hangup cause and its text)
endedRows_noCause(rows, call, uid, cause, nowMs, offset) ==
    [i \in DOMAIN rows |->
        IF rows[i].unique_id = uid
        THEN [rows[i] EXCEPT
                !.end_time = Some(SqlDatetimeNow(nowMs)),
                !.duration_seconds =
                    Some(durationSeconds(Val(call), nowMs, offset)),
                !.call_state = "ended"]
        ELSE rows[i]]

\* The UPDATE of updateCallEnded.
endedRows(rows, call, uid, cause, nowMs, offset) ==
    [i \in DOMAIN rows |->
        IF rows[i].unique_id = uid
        THEN [rows[i] EXCEPT
                !.end_time = Some(SqlDatetimeNow(nowMs)),
                !.duration_seconds =
                    Some(durationSeconds(Val(call), nowMs, offset)),
                !.hangup_cause = Some(cause),
                !.hangup_cause_txt = Some(CauseTxt(cause)),
                !.call_state = "ended"]
        ELSE rows[i]]

\* (updateCallEnded without `if (!call) return false`: call.answer_time of
\* null is a TypeError)
updateCallEnded_noGuard(rows, call, uid, cause, nowMs, offset) ==
    IF call = NULL
    THEN [threw |-> TRUE, rows |-> rows]
    ELSE [threw |-> FALSE,
          rows |-> endedRows(rows, call, uid, cause, nowMs, offset)]

\* updateCallEnded after its lookup returned `call` (NULL: not found).
updateCallEnded(rows, call, uid, cause, nowMs, offset) ==
    IF call = NULL
    THEN [threw |-> FALSE, rows |-> rows]
    ELSE [threw |-> FALSE,
          rows |-> endedRows(rows, call, uid, cause, nowMs, offset)]

\* logCallEvent: call_id INTEGER NOT NULL rejects an undefined id.
logCallEventThrows(callId) == callId = NULL

\* ------------------------------------------------------------ AMI tracker

Task(kind, uid, pc, cause) ==
    [kind |-> kind, uid |-> uid, pc |-> pc, cause |-> cause,
     callId |-> NULL, call |-> NULL]

\* A socket chunk is a macrotask of its own (the queue is empty), or the
\* emitter is still inside the chunk it is dispatching.
CanDispatch == nEvents < limits.tracker /\ (mq = <<>> \/ inChunk)

\* The history of one uniqueId: "none" (no event yet), "untracked" (events,
\* but no channel-created yet), "created" (channel-created one or more
\* times), "answered" (then one state-changed(answered)), "ended" (then one
\* hangup), "other" (any other sequence).
Matched(h, what) ==
    CASE what = "newchannel" -> IF h \in {"none", "created"} THEN "created"
                                ELSE "other"
      [] what = "answered" -> IF h = "created" THEN "answered"
                              ELSE IF h \in {"none", "untracked"}
                                   THEN "untracked" ELSE "other"
      [] what = "hangup" -> IF h = "answered" THEN "ended"
                            ELSE IF h \in {"none", "untracked"}
                                 THEN "untracked" ELSE "other"
      [] OTHER -> IF h \in {"none", "untracked"} THEN "untracked" ELSE "other"

\* The uniqueIds are names the switch chooses: the one of a run's first
\* event is called "u1".
FirstIsU1(u) == nEvents = 0 => u = "u1"

Dispatched(u, what) ==
    /\ FirstIsU1(u)
    /\ delivered' = [delivered EXCEPT ![u] = Matched(@, what)]
    /\ nEvents' = nEvents + 1
    /\ inChunk' = (mq' # <<>>)
    /\ UNCHANGED <<supV, calls, callEvents, activeCalls, errors, envV, resolved>>

\* handleNewChannel up to `await getDatabase()` inside createCall.
handleNewChannel(u) ==
    /\ CanDispatch
    /\ mq' = Append(mq, Task("newchannel", u, "nc_insert", 0))
    /\ Dispatched(u, "newchannel")

\* (handleNewState taking every channel state for an answer)
IsAnswered_anyState(channelState) == TRUE

\* channelState === 6
IsAnswered(channelState) == channelState = AnsweredState

\* handleNewState: only state 6 touches the store.
handleNewState(u, st) ==
    /\ CanDispatch
    /\ mq' = IF IsAnswered(st)
             THEN Append(mq, Task("newstate", u, "ns_update", 0))
             ELSE mq
    /\ Dispatched(u, IF st = AnsweredState THEN "answered" ELSE "newstate")

DialSubEvents == {"Begin", "End"}

\* handleDial: on 'Begin', for a uniqueId in the cache, the destination is
\* noted in the cache entry and the handler goes on to logCallEvent's
\* await with the id it has read.
handleDial(u, subevent) ==
    /\ CanDispatch
    /\ FirstIsU1(u)
    /\ IF subevent = "Begin" /\ activeCalls[u] # NULL
       THEN /\ activeCalls' = [activeCalls EXCEPT
                                 ![u] = Some([Val(@) EXCEPT !.dest = Some("dialed")])]
            /\ mq' = Append(mq, [Task("dial", u, "dl_log", 0) EXCEPT
                                   !.callId = Val(activeCalls[u]).id])
       ELSE UNCHANGED <<activeCalls, mq>>
    /\ delivered' = [delivered EXCEPT ![u] = Matched(@, "dial")]
    /\ nEvents' = nEvents + 1
    /\ inChunk' = (mq' # <<>>)
    /\ UNCHANGED <<supV, calls, callEvents, errors, envV, resolved>>

\* handleDTMF: a log line and the emit.
handleDTMF(u) ==
    /\ CanDispatch
    /\ mq' = mq
    /\ Dispatched(u, "dtmf")

\* handleHangup up to `await getDatabase()` inside updateCallEnded.
handleHangup(u, cause) ==
    /\ CanDispatch
    /\ mq' = Append(mq, Task("hangup", u, "hu_db", cause))
    /\ Dispatched(u, "hangup")

Running(pc) == mq # <<>> /\ Head(mq).pc = pc
Requeue(t) == mq' = Append(Tail(mq), t) /\ inChunk' = FALSE
Finish == mq' = Tail(mq) /\ inChunk' = FALSE

\* createCall: the INSERT, or on the UNIQUE error the lookup's first await.
nc_insert ==
    /\ Running("nc_insert")
    /\ LET t == Head(mq)
           r == createCall(calls, t.uid, "initiated")
       IN /\ calls' = r.rows
          /\ Requeue(IF r.ok THEN [t EXCEPT !.pc = "nc_set", !.callId = r.id]
                             ELSE [t EXCEPT !.pc = "nc_select"])
    /\ UNCHANGED <<supV, callEvents, activeCalls, errors, envV, histV>>

\* getCallByUniqueId inside createCall's catch.
nc_select ==
    /\ Running("nc_select")
    /\ LET t == Head(mq)
       IN Requeue([t EXCEPT !.pc = "nc_return",
                            !.call = getCallByUniqueId(calls, t.uid)])
    /\ UNCHANGED <<supV, calls, callEvents, activeCalls, errors, envV, histV>>

\* return existing?.id
nc_return ==
    /\ Running("nc_return")
    /\ LET t == Head(mq)
       IN /\ Requeue([t EXCEPT !.pc = "nc_set",
                               !.callId = IF t.call = NULL THEN NULL
                                          ELSE Some(Val(t.call).id)])
          /\ resolved' = IF t.call = NULL THEN resolved
                         ELSE resolved \cup {t.uid}
    /\ UNCHANGED <<supV, calls, callEvents, activeCalls, errors, envV, delivered,
                   nEvents>>

\* activeCalls.set(uniqueId, {id: callId, ...}), then logCallEvent's await.
nc_set ==
    /\ Running("nc_set")
    /\ LET t == Head(mq)
       IN /\ activeCalls' = [activeCalls EXCEPT
                               ![t.uid] = Some([id |-> t.callId, dest |-> NULL])]
          /\ Requeue([t EXCEPT !.pc = "nc_log"])
    /\ UNCHANGED <<supV, calls, callEvents, errors, envV, histV>>

\* logCallEvent's INSERT; a throw lands in the handler's catch.
LogStep(t, type, callId, next) ==
    /\ IF logCallEventThrows(callId)
       THEN /\ errors' = errors \cup {t.kind}
            /\ callEvents' = callEvents
       ELSE /\ callEvents' = callEvents \cup {<<Val(callId), type>>}
            /\ errors' = errors
    /\ Requeue([t EXCEPT !.pc = next])
    /\ UNCHANGED <<supV, calls, activeCalls, envV, histV>>

nc_log ==
    /\ Running("nc_log")
    /\ LogStep(Head(mq), "newchannel", Head(mq).callId, "emit")

\* The handler's closing this.emit(...), after its try/catch.
emit ==
    /\ Running("emit")
    /\ Finish
    /\ UNCHANGED <<supV, calls, callEvents, activeCalls, errors, envV, histV>>

\* logCallEvent's INSERT for the dial; handleDial has no try/catch, a
\* throw rejects the handler's promise and the emit is skipped.
dl_log ==
    /\ Running("dl_log")
    /\ LET t == Head(mq) IN
       IF logCallEventThrows(t.callId)
       THEN Finish /\ UNCHANGED callEvents
       ELSE /\ callEvents' = callEvents \cup {<<Val(t.callId), "dial">>}
            /\ Requeue([t EXCEPT !.pc = "emit"])
    /\ UNCHANGED <<supV, calls, activeCalls, errors, envV, histV>>

\* updateCallAnswered's UPDATE.
ns_update ==
    /\ Running("ns_update")
    /\ calls' = updateCallAnswered(calls, Head(mq).uid, now)
    /\ Requeue([Head(mq) EXCEPT !.pc = "ns_get"])
    /\ UNCHANGED <<supV, callEvents, activeCalls, errors, envV, histV>>

\* const call = this.activeCalls.get(uniqueId)
ns_get ==
    /\ Running("ns_get")
    /\ LET t == Head(mq)
       IN IF activeCalls[t.uid] # NULL
          THEN Requeue([t EXCEPT !.pc = "ns_log",
                                 !.callId = Val(activeCalls[t.uid]).id])
          ELSE Finish
    /\ UNCHANGED <<supV, calls, callEvents, activeCalls, errors, envV, histV>>

ns_log ==
    /\ Running("ns_log")
    /\ LogStep(Head(mq), "answered", Head(mq).callId, "emit")

\* updateCallEnded: `await this.getCallByUniqueId(uniqueId)` starts.
hu_db ==
    /\ Running("hu_db")
    /\ Requeue([Head(mq) EXCEPT !.pc = "hu_select"])
    /\ UNCHANGED <<supV, calls, callEvents, activeCalls, errors, envV, histV>>

hu_select ==
    /\ Running("hu_select")
    /\ LET t == Head(mq)
       IN Requeue([t EXCEPT !.pc = "hu_update",
                            !.call = getCallByUniqueId(calls, t.uid)])
    /\ UNCHANGED <<supV, calls, callEvents, activeCalls, errors, envV, histV>>

\* The duration and the UPDATE; a throw lands in handleHangup's catch.
\* `new Date(call.answer_time)` reads the process's zone, which is the same
\* at every read.
hu_update ==
    /\ Running("hu_update")
    /\ LET t == Head(mq)
           parses == t.call # NULL /\ Val(t.call).answer_time # NULL
       IN \E offset \in (IF ~parses THEN {0}
                         ELSE IF tz = NULL THEN TzOffsets ELSE tz) :
            LET r == updateCallEnded(calls, t.call, t.uid, t.cause, now,
                                     offset)
            IN /\ calls' = r.rows
               /\ tz' = IF parses THEN Some(offset) ELSE tz
               /\ errors' = IF r.threw THEN errors \cup {t.kind} ELSE errors
               /\ Requeue([t EXCEPT !.pc = IF r.threw THEN "emit"
                                          ELSE "hu_get"])
    /\ UNCHANGED <<supV, callEvents, activeCalls, now, histV>>

hu_get ==
    /\ Running("hu_get")
    /\ LET t == Head(mq)
       IN IF activeCalls[t.uid] # NULL
          THEN Requeue([t EXCEPT !.pc = "hu_log",
                                 !.callId = Val(activeCalls[t.uid]).id])
          ELSE Finish
    /\ UNCHANGED <<supV, calls, callEvents, activeCalls, errors, envV, histV>>

\* logCallEvent; when it throws, the delete is skipped.
hu_log ==
    /\ Running("hu_log")
    /\ LogStep(Head(mq), "hangup", Head(mq).callId,
               IF logCallEventThrows(Head(mq).callId) THEN "emit"
               ELSE "hu_delete")

\* this.activeCalls.delete(uniqueId), then the emit.
hu_delete ==
    /\ Running("hu_delete")
    /\ activeCalls' = [activeCalls EXCEPT ![Head(mq).uid] = NULL]
    /\ Finish
    /\ UNCHANGED <<supV, calls, callEvents, errors, envV, histV>>

\* The clock has a granularity of half a second; draining the microtask
\* queue takes no time at that granularity.
Tick ==
    /\ mq = <<>>
    /\ now < MaxClock * (MsPerSecond \div 2)
    /\ now' = now + MsPerSecond \div 2
    /\ UNCHANGED <<supV, calls, callEvents, activeCalls, mq, inChunk, errors, tz,
                   histV>>

InitTracker ==
    /\ calls = <<>>
    /\ callEvents = {}
    /\ activeCalls = [u \in UniqueIds |-> NULL]
    /\ mq = <<>>
    /\ inChunk = FALSE
    /\ errors = {}
    /\ now = 0
    /\ tz = NULL
    /\ delivered = [u \in UniqueIds |-> "none"]
    /\ resolved = {}
    /\ nEvents = 0

NextTracker ==
    \/ \E u \in UniqueIds : handleNewChannel(u)
    \/ \E u \in UniqueIds, st \in ChannelStates : handleNewState(u, st)
    \/ \E u \in UniqueIds, c \in HangupCauses : handleHangup(u, c)
    \/ nc_insert \/ nc_select \/ nc_return \/ nc_set \/ nc_log
    \/ ns_update \/ ns_get \/ ns_log
    \/ hu_db \/ hu_select \/ hu_update \/ hu_get \/ hu_log \/ hu_delete
    \/ emit
    \/ Tick

\* The tracker with the events that leave the records alone.
NextDial ==
    \/ NextTracker
    \/ \E u \in UniqueIds, subevent \in DialSubEvents : handleDial(u, subevent)
    \/ dl_log
    \/ \E u \in UniqueIds : handleDTMF(u)

\* ---------------------------------------------------- connection supervisors

Clients == {"ami", "ari"}

\* error.code of the connection errors a socket reports.
ErrorCodes == {"ECONNREFUSED", "ETIMEDOUT", "ECONNRESET", "EHOSTUNREACH"}

\* process.exit has not been called.
Alive == exit = NULL

\* clearTimeout(this.reconnectTimer): the timer the field refers to is
\* cancelled if it is still pending; the field keeps its value.
clearTimeout(s) ==
    IF s.reconnectTimer
    THEN [s EXCEPT !.reconnectTimer = FALSE, !.timers = @ - 1]
    ELSE s

\* (scheduleReconnect with `>` for `>=` in the limit test)
scheduleReconnect_offByOne(s, max) ==
    IF ~s.shouldReconnect THEN s
    ELSE IF max > 0 /\ s.reconnectAttempts > max THEN s
    ELSE [clearTimeout(s) EXCEPT !.reconnectAttempts = @ + 1,
                                 !.reconnectTimer = TRUE, !.timers = @ + 1]

\* (scheduleReconnect without `if (this.reconnectTimer) clearTimeout(...)`)
scheduleReconnect_noClear(s, max) ==
    IF ~s.shouldReconnect THEN s
    ELSE IF max > 0 /\ s.reconnectAttempts >= max THEN s
    ELSE [s EXCEPT !.reconnectAttempts = @ + 1,
                   !.reconnectTimer = TRUE, !.timers = @ + 1]

\* scheduleReconnect, the same code in both clients: clearTimeout of the
\* timer this.reconnectTimer refers to, then setTimeout of a new one.
scheduleReconnect(s, max) ==
    IF ~s.shouldReconnect THEN s
    ELSE IF max > 0 /\ s.reconnectAttempts >= max THEN s
    ELSE [clearTimeout(s) EXCEPT !.reconnectAttempts = @ + 1,
                                 !.reconnectTimer = TRUE, !.timers = @ + 1]

\* (disconnect without its clearTimeout)
stopFlags_keepTimer(s) == [s EXCEPT !.shouldReconnect = FALSE]

\* The head of disconnect(): shouldReconnect = false, clearTimeout.
stopFlags(s) == [clearTimeout(s) EXCEPT !.shouldReconnect = FALSE]

Failed(c) == failures' = [failures EXCEPT ![c] = @ + 1]
\* An event handled after stop().
Late(c) ==
    stopInfo' = IF sup[c].shouldReconnect THEN stopInfo
                ELSE [stopInfo EXCEPT ![c].late = TRUE]

\* AMIClient.connect(): a new AsteriskManager with its connectionTimeout
\* armed replaces this.ami, or the constructor throws into the catch.
AMI_connect(s) ==
    /\ started' = [started EXCEPT !["ami"] = @ + 1]
    /\ IF amiCtorThrows
       THEN /\ sup' = [sup EXCEPT !["ami"] = scheduleReconnect(s, maxReconnectAttempts)]
            /\ Failed("ami")
            /\ UNCHANGED <<amiConns, amiCur>>
       ELSE /\ sup' = [sup EXCEPT !["ami"] = s]
            /\ amiConns' = Append(amiConns, [st |-> "connecting", timeout |-> TRUE])
            /\ amiCur' = Len(amiConns) + 1
            /\ UNCHANGED failures
    /\ emitted' = <<>>
    /\ UNCHANGED <<outsideSup, supCfg, procV, ariPending, ariClients,
                   ariCur, ariStop, everConnected, stopInfo>>

\* gateway.start(): await this.amiClient.connect()
AMI_start ==
    /\ Alive
    /\ followed = "ami"
    /\ started["ami"] = 0
    /\ sup["ami"].shouldReconnect
    /\ AMI_connect(sup["ami"])

\* A pending retry timer fires: the one this.reconnectTimer refers to, or
\* one that was replaced without being cleared.
timerFires(s, current) ==
    IF current THEN [s EXCEPT !.reconnectTimer = FALSE, !.timers = @ - 1]
    ELSE [s EXCEPT !.timers = @ - 1]

CanFire(s, current) ==
    IF current THEN s.reconnectTimer
    ELSE s.timers > (IF s.reconnectTimer THEN 1 ELSE 0)

\* The reconnect timer fires: await this.connect()
AMI_timerFire(current) ==
    /\ Alive
    /\ followed = "ami"
    /\ CanFire(sup["ami"], current)
    /\ started["ami"] < MaxConns
    /\ AMI_connect(timerFires(sup["ami"], current))

\* (a successful connection leaving the attempt counter as it is)
markConnected_keepsAttempts(s) == [s EXCEPT !.isConnected = TRUE]

\* this.isConnected = true; this.reconnectAttempts = 0; the same two
\* lines in both clients.
markConnected(s) == [s EXCEPT !.isConnected = TRUE, !.reconnectAttempts = 0]

\* this.ami.on('connect'), on any instance that is still connecting.
AMI_onConnect(i) ==
    /\ Alive
    /\ followed = "ami"
    /\ amiConns[i].st = "connecting"
    /\ amiConns' = [amiConns EXCEPT ![i] = [st |-> "open", timeout |-> FALSE]]
    /\ sup' = [sup EXCEPT !["ami"] = markConnected(@)]
    /\ everConnected' = [everConnected EXCEPT !["ami"] = TRUE]
    /\ Late("ami")
    /\ emitted' = <<"connected">>
    /\ UNCHANGED <<outsideSup, supCfg, procV, amiCur, ariPending,
                   ariClients, ariCur, ariStop, started, failures>>

\* this.ami.on('close'), on any instance whose socket is not closed yet.
AMI_onClose(i) ==
    /\ Alive
    /\ followed = "ami"
    /\ amiConns[i].st \in {"connecting", "open"}
    /\ amiConns' = [amiConns EXCEPT ![i].st = "closed"]
    /\ sup' = [sup EXCEPT !["ami"] =
                 IF @.isConnected
                 THEN scheduleReconnect([@ EXCEPT !.isConnected = FALSE],
                                        maxReconnectAttempts)
                 ELSE @]
    /\ Late("ami")
    /\ emitted' = IF sup["ami"].isConnected THEN <<"disconnected">> ELSE <<>>
    /\ UNCHANGED <<outsideSup, supCfg, procV, amiCur, ariPending,
                   ariClients, ariCur, ariStop, started, failures, everConnected>>

\* The connectionTimeout of instance i fires.
AMI_onTimeout(i) ==
    /\ Alive
    /\ followed = "ami"
    /\ amiConns[i].timeout
    /\ amiConns' = [amiConns EXCEPT ![i].timeout = FALSE]
    /\ IF sup["ami"].isConnected
       THEN UNCHANGED <<sup, failures>>
       ELSE /\ sup' = [sup EXCEPT !["ami"] =
                         scheduleReconnect(@, maxReconnectAttempts)]
            /\ Failed("ami")
    /\ Late("ami")
    /\ emitted' = <<>>
    /\ UNCHANGED <<outsideSup, supCfg, procV, amiCur, ariPending,
                   ariClients, ariCur, ariStop, started, everConnected>>

\* AMIClient.disconnect(), which gateway.shutdown() calls before its first
\* await; this.ami.disconnect() closes the current socket.
AMI_disconnect ==
    /\ followed = "ami"
    /\ sup["ami"].shouldReconnect
    /\ sup' = [sup EXCEPT !["ami"] = [stopFlags(@) EXCEPT !.isConnected = FALSE]]
    /\ amiConns' = IF amiCur = 0 THEN amiConns
                   ELSE [amiConns EXCEPT ![amiCur].st = "closed"]
    /\ amiCur' = 0
    /\ stopInfo' = [stopInfo EXCEPT !["ami"].cancelled = sup["ami"].reconnectTimer]
    /\ UNCHANGED <<outsideSup, supCfg, ariPending, ariClients,
                   ariCur, ariStop, started, failures, everConnected>>

\* ARIClient.connect() up to `await ARI.connect(...)`.
ARI_connect(s) ==
    /\ started' = [started EXCEPT !["ari"] = @ + 1]
    /\ sup' = [sup EXCEPT !["ari"] = s]
    /\ ariPending' = ariPending + 1
    /\ emitted' = <<>>
    /\ UNCHANGED <<outsideSup, supCfg, procV, amiConns, amiCur,
                   ariClients, ariCur, ariStop, failures, everConnected,
                   stopInfo>>

\* gateway.start(): await this.ariClient.connect()
ARI_start ==
    /\ Alive
    /\ followed = "ari"
    /\ started["ari"] = 0
    /\ sup["ari"].shouldReconnect
    /\ ARI_connect(sup["ari"])

ARI_timerFire(current) ==
    /\ Alive
    /\ followed = "ari"
    /\ CanFire(sup["ari"], current)
    /\ started["ari"] < MaxConns
    /\ ARI_connect(timerFires(sup["ari"], current))

\* ARI.connect resolves: this.ari = client, isConnected = true, the counter
\* is reset, registerEventHandlers hooks the WebSocket when the client
\* already has one.
ARI_connected(hooked) ==
    /\ Alive
    /\ followed = "ari"
    /\ ariPending > 0
    /\ ariPending' = ariPending - 1
    /\ ariClients' = Append(ariClients, [ws |-> "open", hooked |-> hooked])
    /\ ariCur' = Len(ariClients) + 1
    /\ sup' = [sup EXCEPT !["ari"] = markConnected(@)]
    /\ everConnected' = [everConnected EXCEPT !["ari"] = TRUE]
    /\ Late("ari")
    /\ emitted' = <<"connected">>
    /\ UNCHANGED <<outsideSup, supCfg, procV, amiConns, amiCur,
                   ariStop, started, failures>>

\* ARI.connect rejects: the catch of connect().
ARI_connectFailed ==
    /\ Alive
    /\ followed = "ari"
    /\ ariPending > 0
    /\ ariPending' = ariPending - 1
    /\ sup' = [sup EXCEPT !["ari"] =
                 scheduleReconnect([@ EXCEPT !.isConnected = FALSE],
                                   maxReconnectAttempts)]
    /\ Failed("ari")
    /\ Late("ari")
    /\ emitted' = <<>>
    /\ UNCHANGED <<outsideSup, supCfg, procV, amiConns, amiCur,
                   ariClients, ariCur, ariStop, started, everConnected>>

\* The WebSocket of client i closes; its 'close' listener exists only when
\* registerEventHandlers found this.ari._ws.
ARI_wsClose(i) ==
    /\ Alive
    /\ followed = "ari"
    /\ ariClients[i].ws = "open"
    /\ ariClients' = [ariClients EXCEPT ![i].ws = "closed"]
    /\ sup' = [sup EXCEPT !["ari"] =
                 IF ariClients[i].hooked
                 THEN scheduleReconnect([@ EXCEPT !.isConnected = FALSE],
                                        maxReconnectAttempts)
                 ELSE @]
    /\ Late("ari")
    /\ emitted' = IF ariClients[i].hooked THEN <<"disconnected">> ELSE <<>>
    /\ UNCHANGED <<outsideSup, supCfg, procV, amiConns, amiCur,
                   ariPending, ariCur, ariStop, started, failures, everConnected>>

\* gateway.shutdown() goes on after `await this.amiClient.disconnect()`:
\* ARIClient.disconnect() with no channel active, up to `await
\* this.ari.stop()`; without a client it runs to its end at once.
ARI_disconnect ==
    /\ Alive
    /\ followed = "ari"
    /\ shutdown # NULL
    /\ ariStop = "no"
    /\ ariStop' = IF ariCur = 0 THEN "done" ELSE "stopping"
    /\ sup' = [sup EXCEPT !["ari"] =
                 IF ariCur = 0 THEN [stopFlags(@) EXCEPT !.isConnected = FALSE]
                 ELSE stopFlags(@)]
    /\ ariClients' = IF ariCur = 0 THEN ariClients
                     ELSE [ariClients EXCEPT ![ariCur].ws = "closed"]
    /\ stopInfo' = [stopInfo EXCEPT !["ari"].cancelled = sup["ari"].reconnectTimer]
    /\ emitted' = <<>>
    /\ UNCHANGED <<outsideSup, supCfg, procV, amiConns, amiCur, ariPending, ariCur,
                   started, failures, everConnected>>

\* The rest of disconnect(): this.ari = null, isConnected = false.
ARI_disconnected ==
    /\ Alive
    /\ followed = "ari"
    /\ ariStop = "stopping"
    /\ ariStop' = "done"
    /\ ariCur' = 0
    /\ sup' = [sup EXCEPT !["ari"].isConnected = FALSE]
    /\ emitted' = <<>>
    /\ UNCHANGED <<outsideSup, supCfg, procV, amiConns, amiCur, ariPending,
                   ariClients, started, failures, everConnected, stopInfo>>

\* gateway.shutdown(exitCode) has set isShuttingDown.
Shutdown(by, code) == Some([by |-> by, code |-> code])

\* Neither client has an 'error' listener, so this.emit('error', error)
\* throws the error, and it reaches process.on('uncaughtException'): every
\* error but ECONNREFUSED calls gateway.shutdown(1), which returns at once
\* when a shutdown is under way.
uncaughtException(code) ==
    IF code = "ECONNREFUSED" \/ shutdown # NULL THEN shutdown
    ELSE Shutdown("uncaughtException", 1)

supState == <<outsideSup, supCfg, sup, amiConns, amiCur, ariPending,
              ariClients, ariCur, ariStop, started, failures, everConnected,
              stopInfo>>

\* SIGINT / SIGTERM: gateway.shutdown() up to its first await.
Signal ==
    /\ Alive
    /\ shutdown = NULL
    /\ shutdown' = Shutdown("signal", 0)
    /\ emitted' = <<>>
    /\ UNCHANGED exit
    /\ IF followed = "ami" THEN AMI_disconnect ELSE UNCHANGED supState

\* this.ami.on('error'), on any instance whose socket is not closed yet.
AMI_onError(i, code) ==
    /\ Alive
    /\ followed = "ami"
    /\ amiConns[i].st # "closed"
    /\ emitted' = <<"error">>
    /\ shutdown' = uncaughtException(code)
    /\ UNCHANGED exit
    /\ IF shutdown = NULL /\ uncaughtException(code) # NULL
       THEN AMI_disconnect ELSE UNCHANGED supState

\* this.ari._ws.on('error'); the listener exists only when
\* registerEventHandlers found this.ari._ws.
ARI_wsError(i, code) ==
    /\ Alive
    /\ followed = "ari"
    /\ ariClients[i].ws = "open" /\ ariClients[i].hooked
    /\ emitted' = <<"error">>
    /\ shutdown' = uncaughtException(code)
    /\ UNCHANGED <<exit, supState>>

\* The end of gateway.shutdown(): process.exit(exitCode), after the
\* disconnect() of both clients has returned.
ProcessExit ==
    /\ Alive
    /\ shutdown # NULL
    /\ IF followed = "ami" THEN ~sup["ami"].shouldReconnect
       ELSE ariStop = "done"
    /\ exit' = Some(Val(shutdown).code)
    /\ emitted' = <<>>
    /\ UNCHANGED <<shutdown, supState>>

InitSupervisor ==
    /\ followed \in Clients
    /\ sup = [c \in Clients |->
                [isConnected |-> FALSE, reconnectAttempts |-> 0,
                 reconnectTimer |-> FALSE, timers |-> 0,
                 shouldReconnect |-> TRUE]]
    /\ maxReconnectAttempts \in {0, ConfiguredMaxAttempts}
    /\ amiCtorThrows \in BOOLEAN
    /\ amiConns = <<>>
    /\ amiCur = 0
    /\ ariPending = 0
    /\ ariClients = <<>>
    /\ ariCur = 0
    /\ ariStop = "no"
    /\ started = [c \in Clients |-> 0]
    /\ failures = [c \in Clients |-> 0]
    /\ everConnected = [c \in Clients |-> FALSE]
    /\ stopInfo = [c \in Clients |-> [cancelled |-> FALSE, late |-> FALSE]]
    /\ emitted = <<>>
    /\ shutdown = NULL
    /\ exit = NULL

\* The default configuration, for the specifications of the other parts.
DefaultSupervisor ==
    /\ InitSupervisor
    /\ followed = "ami" /\ maxReconnectAttempts = 0 /\ ~amiCtorThrows

NextSupervisor ==
    \/ AMI_start
    \/ \E current \in BOOLEAN : AMI_timerFire(current)
    \/ \E i \in DOMAIN amiConns : AMI_onConnect(i)
    \/ \E i \in DOMAIN amiConns : AMI_onClose(i)
    \/ \E i \in DOMAIN amiConns : AMI_onTimeout(i)
    \/ \E i \in DOMAIN amiConns, code \in ErrorCodes : AMI_onError(i, code)
    \/ ARI_start
    \/ \E current \in BOOLEAN : ARI_timerFire(current)
    \/ \E h \in BOOLEAN : ARI_connected(h)
    \/ ARI_connectFailed
    \/ \E i \in DOMAIN ariClients : ARI_wsClose(i)
    \/ ARI_disconnect
    \/ ARI_disconnected
    \/ \E i \in DOMAIN ariClients, code \in ErrorCodes : ARI_wsError(i, code)
    \/ Signal
    \/ ProcessExit

\* ------------------------------------------------- transcription job runner

Texts == {"text-a", "text-b"}
JobIds == 1..MaxJobs

\* A call of an async function evaluates to a promise of its result.
Promise(v) == [kind |-> "promise", value |-> v]
\* for...of accepts arrays, not promises.
Iterable(v) == v.kind = "array"

RECURSIVE PendingFrom(_, _)
PendingFrom(rows, i) ==
    IF i > Len(rows) THEN <<>>
    ELSE IF rows[i].transcription_status = "pending"
         THEN <<i>> \o PendingFrom(rows, i + 1)
         ELSE PendingFrom(rows, i + 1)

\* getPendingTranscriptions(): the ids of the pending rows, oldest first.
getPendingTranscriptions(rows) == Promise(PendingFrom(rows, 1))

createTranscription(rows, callId, recordingPath) ==
    Append(rows, [call_id |-> callId, recording_path |-> recordingPath,
                  transcription_status |-> "pending",
                  transcription_text |-> NULL, error_message |-> NULL])

\* (the path built from this.recordingsDir)
RecordingPath_recordingsDir(recordingName) ==
    <<"./recordings/", recordingName, ".wav">>

\* `/var/spool/asterisk/recording/${recordingName}.wav`
RecordingPath(recordingName) ==
    <<"/var/spool/asterisk/recording/", recordingName, ".wav">>

\* The UPDATE statements of markAsProcessing, completeTranscription and
\* failTranscription: WHERE id = ? and nothing else.
Update(rows, w) ==
    IF w.id \notin DOMAIN rows THEN rows
    ELSE IF w.op = "processing"
         THEN [rows EXCEPT ![w.id].transcription_status = "processing"]
    ELSE IF w.op = "completed"
         THEN [rows EXCEPT ![w.id].transcription_status = "completed",
                           ![w.id].transcription_text = Some(w.arg)]
    ELSE [rows EXCEPT ![w.id].transcription_status = "failed",
                      ![w.id].error_message = Some(w.arg)]

\* A repository call waiting for the store; `by` is the caller, and
\* processRecording does not await the promises of its calls.
Write(op, id, arg, by) == [op |-> op, id |-> id, arg |-> arg, by |-> by]

\* processRecording up to `await this.simulateProcessingDelay()`:
\* markAsProcessing is called and not awaited, the timer is set.
\* `rest` are the ids retryFailed still has to process after this one.
StartProcessing(q, ds, id, batch, rest) ==
    /\ jq' = Append(q, Write("processing", id, "", "processRecording"))
    /\ delays' = ds \cup {[inv |-> nCalls + 1, id |-> id, batch |-> batch,
                            rest |-> rest]}
    /\ nCalls' = nCalls + 1

\* A call of createTranscription (handleRecordingFinished awaits it).
CreateTranscription ==
    /\ Len(jobs) < MaxJobs
    /\ jobs' = createTranscription(jobs, Some(1), RecordingPath(<<"recording", "u1", 0>>))
    /\ UNCHANGED <<outsideJobs, jobHist, jq, delays, nCalls, retryState, retrySnapshot>>

\* A call of processRecording (triggerAIProcessing, processMultiple).
processRecording(id) ==
    /\ nCalls < MaxCalls
    /\ StartProcessing(jq, delays, id, FALSE, <<>>)
    /\ UNCHANGED <<outsideJobs, jobHist, jobs, retryState, retrySnapshot>>

\* The repository call at the head of the queue runs its UPDATE.
StoreWrite ==
    /\ jq # <<>>
    /\ jobs' = Update(jobs, Head(jq))
    /\ jq' = Tail(jq)
    /\ UNCHANGED <<outsideJobs, jobHist, delays, nCalls, retryState, retrySnapshot>>

\* The repository call at the head of the queue throws: db.run before the
\* UPDATE has changed the row, or saveDatabase after it has.  The call's
\* promise rejects.
StoreWriteFails(applied) ==
    /\ jq # <<>>
    /\ jobs' = IF applied THEN Update(jobs, Head(jq)) ELSE jobs
    /\ jq' = Tail(jq)
    /\ rejections' = rejections \cup {[op |-> Head(jq).op, id |-> Head(jq).id,
                                        by |-> Head(jq).by]}
    /\ UNCHANGED <<outsideJobs, results, delays, nCalls, retryState,
                   retrySnapshot>>

\* The delay of an invocation is over: processRecording generates the text,
\* calls completeTranscription without awaiting it and returns success;
\* then retryFailed goes on with its next row or returns.
DelayDone(d, text) ==
    /\ jq = <<>>
    /\ d \in delays
    /\ IF d.batch /\ d.rest # <<>>
       THEN /\ StartProcessing(Append(jq, Write("completed", d.id, text, "processRecording")),
                               delays \ {d}, Head(d.rest), TRUE, Tail(d.rest))
            /\ UNCHANGED retryState
       ELSE /\ jq' = Append(jq, Write("completed", d.id, text, "processRecording"))
            /\ delays' = delays \ {d}
            /\ retryState' = IF d.batch THEN "returned" ELSE retryState
            /\ UNCHANGED nCalls
    /\ results' = results \cup {[id |-> d.id, success |-> TRUE]}
    /\ UNCHANGED <<outsideJobs, rejections, jobs, retrySnapshot>>

\* Calls of the repository's own methods.
markAsProcessing(id) ==
    /\ nCalls < MaxCalls
    /\ nCalls' = nCalls + 1
    /\ jq' = Append(jq, Write("processing", id, "", "caller"))
    /\ UNCHANGED <<outsideJobs, jobHist, jobs, delays, retryState, retrySnapshot>>

completeTranscription(id, text) ==
    /\ nCalls < MaxCalls
    /\ nCalls' = nCalls + 1
    /\ jq' = Append(jq, Write("completed", id, text, "caller"))
    /\ UNCHANGED <<outsideJobs, jobHist, jobs, delays, retryState, retrySnapshot>>

failTranscription(id, message) ==
    /\ nCalls < MaxCalls
    /\ nCalls' = nCalls + 1
    /\ jq' = Append(jq, Write("failed", id, message, "caller"))
    /\ UNCHANGED <<outsideJobs, jobHist, jobs, delays, retryState, retrySnapshot>>

\* retryFailed(): `pending` is what the call of getPendingTranscriptions
\* evaluates to, with no await; for...of over it throws a TypeError unless
\* it is iterable, and the async function then rejects.
retryFailed ==
    /\ retryState = "idle"
    /\ jq = <<>>
    /\ retrySnapshot' = {i \in DOMAIN jobs : jobs[i].transcription_status = "pending"}
    /\ LET pending == getPendingTranscriptions(jobs) IN
       IF Iterable(pending)
       THEN IF pending.value = <<>>
            THEN retryState' = "returned" /\ UNCHANGED <<jq, delays, nCalls>>
            ELSE /\ retryState' = "running"
                 /\ StartProcessing(jq, delays, Head(pending.value), TRUE,
                                    Tail(pending.value))
       ELSE retryState' = "rejected" /\ UNCHANGED <<jq, delays, nCalls>>
    /\ UNCHANGED <<outsideJobs, jobHist, jobs>>

InitJobs ==
    /\ jobs = <<>>
    /\ jq = <<>>
    /\ delays = {}
    /\ nCalls = 0
    /\ retryState = "idle"
    /\ retrySnapshot = {}
    /\ rejections = {}
    /\ results = {}

NextJobs ==
    \/ CreateTranscription
    \/ \E id \in DOMAIN jobs : processRecording(id)
    \/ StoreWrite
    \/ \E applied \in BOOLEAN : StoreWriteFails(applied)
    \/ \E d \in delays, text \in Texts : DelayDone(d, text)
    \/ \E id \in DOMAIN jobs : markAsProcessing(id)
    \/ \E id \in DOMAIN jobs, text \in Texts : completeTranscription(id, text)
    \/ \E id \in DOMAIN jobs : failTranscription(id, "error")
    \/ retryFailed

\* ------------------------------------------------------------ voice pipeline

Channels == UniqueIds
NoPlayback == 0
NoRecording == <<>>

\* The entry handleStasisStart stores; currentPlayback, pendingRecording and
\* recordingName are undefined until playPrompt and startRecording set them.
NewSession(c, sid) ==
    [channelId |-> c, sid |-> sid, state |-> "started",
     currentPlayback |-> NoPlayback, pendingRecording |-> FALSE,
     recordingName |-> NoRecording]

\* Map.get: the index of the entry of channel c, 0 when there is none.
Find(m, c) ==
    IF \E i \in DOMAIN m : m[i].channelId = c
    THEN CHOOSE i \in DOMAIN m : m[i].channelId = c
    ELSE 0

\* Map.set: an existing key keeps its place, a new one goes last.
MapSet(m, c, data) ==
    IF Find(m, c) = 0 THEN Append(m, data) ELSE [m EXCEPT ![Find(m, c)] = data]

\* Map.delete
MapDelete(m, c) ==
    SelectSeq(m, LAMBDA e : e.channelId # c)

\* The for...of loops with their break: of the entries that satisfy the
\* test, the first in insertion order; 0 when there is none.
FirstMatch(matching) ==
    IF matching = {} THEN 0
    ELSE CHOOSE i \in matching : \A j \in matching : i <= j

\* (handlePlaybackFinished without the comparison of the playback id)
PlaybackMatches_anyPending(data, playbackId) == data.pendingRecording

\* data.currentPlayback === playback.id && data.pendingRecording
PlaybackMatches(data, playbackId) ==
    data.currentPlayback = playbackId /\ data.pendingRecording

\* data.recordingName === recordingName
RecordingMatches(data, recordingName) == data.recordingName = recordingName

\* `recording-${channel.id}-${Date.now()}`
RecordingName(c, t) == <<"recording", c, t>>

\* A command or timer of the handler numbered n (the number of its session
\* or playback); arg is a recording name or a hangup reason.
Command(kind, c, n, arg) == [kind |-> kind, c |-> c, n |-> n, arg |-> arg]

\* hangupChannel(channel, reason); a failure of channel.hangup is swallowed.
Hangup(c, reason) == Some(<<"hangup", c, reason>>)

\* The reason of the hangup after a failed command: handleStasisStart's
\* catch covers channel.answer and playPrompt alike, startRecording's catch
\* covers channel.record.
FailureReason(kind) ==
    IF kind = "record" THEN "recording_error" ELSE "error"

\* stopRecording(recordingName); a failure of recording.stop is swallowed.
Stop(recordingName) == Some(<<"stop", recordingName>>)

InitSessions ==
    /\ activeChannels = <<>>
    /\ inflight = {}
    /\ issued = NULL
    /\ recordings = {}
    /\ triggered = {}
    /\ ptime = 0
    /\ nStart = 0
    /\ nPlay = 0
    /\ nOther = 0
    /\ shut = [phase |-> "no", pos |-> 0, attempted |-> {}]
    /\ ignored = {}

\* A run of the pipeline: of its MaxAriEvents events at most half are
\* StasisStart events, the others are left for the events that follow.
PipelineLimits ==
    [events |-> MaxAriEvents, sessions |-> MaxAriEvents \div 2,
     tracker |-> MaxEvents, history |-> FALSE]

\* A run with a shutdown.
ShutdownLimits ==
    [events |-> MaxShutdownEvents, sessions |-> MaxShutdownEvents - 1,
     tracker |-> MaxEvents, history |-> FALSE]

\* A run that keeps the events that found no session; at most half of
\* its counted events, rounded up, are StasisStart events.
UnmatchedLimits ==
    [events |-> MaxUnmatchedEvents,
     sessions |-> (MaxUnmatchedEvents + 1) \div 2,
     tracker |-> MaxEvents, history |-> TRUE]

\* A run of the tracker with dial and DTMF events.
DialLimits == [PipelineLimits EXCEPT !.tracker = MaxDialEvents]

InitPipeline == InitSessions /\ limits = PipelineLimits

pipeRest == <<outsidePipe, calls, jobs, shut, limits, ignored>>

\* The event that found no session is kept.
Ignore(event) ==
    ignored' = IF limits.history THEN ignored \cup {event} ELSE ignored

\* An event arrives while the WebSocket is open and the run has events left.
CanReceive == shut.phase # "done" /\ nStart + nOther < limits.events

\* An event that finds no session is not counted: a run that keeps these
\* events lets them arrive whenever the WebSocket is open.
CanIgnore == shut.phase # "done" /\ (limits.history \/ CanReceive)

\* (hangupChannel dropping the sessions of the other channels)
hangupChannel_dropsOthers(m, c) == SelectSeq(m, LAMBDA e : e.channelId = c)

\* (hangupChannel evicting the session of the channel it hangs up)
hangupChannel_evicts(m, c) == MapDelete(m, c)

\* hangupChannel(channel, reason) sends the command and leaves the Map
\* alone: m is the Map afterwards.
hangupChannel(m, c) == m

\* handleStasisStart up to `await channel.answer()`.  The channel ids are names the server chooses: the first
\* one is called "u1".
handleStasisStart(c) ==
    /\ CanReceive
    /\ nStart < limits.sessions
    /\ nStart = 0 => c = "u1"
    /\ nStart' = nStart + 1
    /\ activeChannels' = MapSet(activeChannels, c, NewSession(c, nStart + 1))
    /\ inflight' = inflight \cup {Command("answer", c, nStart + 1, NoRecording)}
    /\ issued' = NULL
    /\ UNCHANGED <<pipeRest, recordings, triggered, ptime, nPlay,
                   nOther>>

\* channel.answer() has settled. On success the entry of the channel is set
\* to 'answered' (a TypeError when the Map has none) and playPrompt runs up
\* to `await channel.play(...)`; every error ends in hangupChannel 'error'.
AnswerDone(t, ok) ==
    /\ t \in inflight /\ t.kind = "answer"
    /\ LET i == Find(activeChannels, t.c) IN
       IF ok /\ i # 0
       THEN /\ activeChannels' =
                 [activeChannels EXCEPT ![i].state = "answered",
                                        ![i].currentPlayback = nPlay + 1,
                                        ![i].pendingRecording = TRUE]
            /\ nPlay' = nPlay + 1
            /\ inflight' = (inflight \ {t}) \cup
                             {Command("play", t.c, nPlay + 1, NoRecording)}
            /\ issued' = NULL
       ELSE /\ inflight' = inflight \ {t}
            /\ issued' = Hangup(t.c, FailureReason("answer"))
            /\ activeChannels' = hangupChannel(activeChannels, t.c)
            /\ UNCHANGED nPlay
    /\ UNCHANGED <<pipeRest, recordings, triggered, ptime, nStart, nOther>>

\* The channel.play of playPrompt has settled; its error is thrown on to
\* handleStasisStart's catch.
PlayDone(t, ok) ==
    /\ t \in inflight /\ t.kind = "play"
    /\ inflight' = inflight \ {t}
    /\ issued' = IF ok THEN NULL ELSE Hangup(t.c, FailureReason("play"))
    /\ activeChannels' = IF ok THEN activeChannels
                         ELSE hangupChannel(activeChannels, t.c)
    /\ UNCHANGED <<pipeRest, recordings, triggered, ptime, nStart, nPlay,
                   nOther>>

\* handlePlaybackFinished, and startRecording up to the beep's
\* `await channel.play(...)`; t is what Date.now() returns: the last
\* reading, or a later time (the first reading is called 1).
handlePlaybackFinished(playbackId, t) ==
    /\ CanIgnore
    /\ playbackId \in 1..nPlay
    /\ t \in (IF ptime = 0 THEN {1} ELSE {ptime, ptime + 1})
    /\ issued' = NULL
    /\ LET i == FirstMatch({k \in DOMAIN activeChannels :
                               PlaybackMatches(activeChannels[k], playbackId)}) IN
       IF i = 0
       THEN /\ t = ptime + 1
            /\ Ignore(<<"PlaybackFinished", playbackId>>)
            /\ UNCHANGED <<activeChannels, inflight, nPlay, ptime, nOther>>
       ELSE LET c == activeChannels[i].channelId
                name == RecordingName(c, t)
            IN  /\ CanReceive
                /\ nOther' = nOther + 1
                /\ UNCHANGED ignored
                /\ ptime' = t
                /\ activeChannels' =
                     [activeChannels EXCEPT ![i].pendingRecording = FALSE,
                                            ![i].recordingName = name,
                                            ![i].state = "recording"]
                /\ nPlay' = nPlay + 1
                /\ inflight' = inflight \cup {Command("beep", c, nPlay + 1, name)}
    /\ UNCHANGED <<outsidePipe, calls, jobs, shut, limits, recordings,
                   triggered, nStart>>

\* (startRecording arming no timer)
AfterRecord_noWatchdog(pending, t, ok) == pending \ {t}

\* What startRecording awaits or has armed once channel.record has settled:
\* the setTimeout of the watchdog when it succeeded.
AfterRecord(pending, t, ok) ==
    IF ok THEN (pending \ {t}) \cup {Command("watchdog", t.c, t.n, t.arg)}
    ELSE pending \ {t}

\* The beep has settled: its error is caught by the inner try, and
\* channel.record is called either way.
BeepDone(t, ok) ==
    /\ t \in inflight /\ t.kind = "beep"
    /\ inflight' = (inflight \ {t}) \cup {Command("record", t.c, t.n, t.arg)}
    /\ recordings' = recordings \cup {t.arg}
    /\ issued' = NULL
    /\ UNCHANGED <<pipeRest, activeChannels, triggered, ptime, nStart,
                   nPlay, nOther>>

\* channel.record has settled: the watchdog is armed, or the channel is
\* hung up with 'recording_error'.
RecordDone(t, ok) ==
    /\ t \in inflight /\ t.kind = "record"
    /\ inflight' = AfterRecord(inflight, t, ok)
    /\ issued' = IF ok THEN NULL ELSE Hangup(t.c, FailureReason("record"))
    /\ activeChannels' = IF ok THEN activeChannels
                         ELSE hangupChannel(activeChannels, t.c)
    /\ UNCHANGED <<pipeRest, recordings, triggered, ptime, nStart, nPlay,
                   nOther>>

\* The watchdog fires: stopRecording(recordingName).  Once disconnect()
\* has set this.ari to null, this.ari.LiveRecording throws inside
\* stopRecording's try and no command goes out.
Watchdog(t) ==
    /\ t \in inflight /\ t.kind = "watchdog"
    /\ inflight' = inflight \ {t}
    /\ issued' = IF shut.phase = "done" THEN NULL ELSE Stop(t.arg)
    /\ UNCHANGED <<pipeRest, activeChannels, recordings, triggered, ptime,
                   nStart, nPlay, nOther>>

\* How the store calls of handleRecordingFinished end: all return; the
\* lookup or createCall throws and no row is written; the record is there
\* and createTranscription throws.  The handler's catch logs the error.
StoreOutcomes == {"ok", "callFails", "jobFails"}

\* handleRecordingFinished up to `await data.channel.play(vm-goodbye)`.
handleRecordingFinished(recordingName, store) ==
    /\ CanIgnore
    /\ recordingName \in recordings
    /\ issued' = NULL
    /\ LET i == FirstMatch({k \in DOMAIN activeChannels :
                               RecordingMatches(activeChannels[k], recordingName)}) IN
       IF i = 0
       THEN /\ store = "ok"
            /\ Ignore(<<"RecordingFinished", recordingName>>)
            /\ UNCHANGED <<activeChannels, calls, jobs, triggered, inflight,
                           nPlay, nOther>>
       ELSE LET c == activeChannels[i].channelId
                existingCall == getCallByUniqueId(calls, c)
                created == createCall(calls, c, "in_stasis")
                callId == IF existingCall # NULL
                          THEN Some(Val(existingCall).id) ELSE created.id
            IN  /\ CanReceive
                /\ nOther' = nOther + 1
                /\ UNCHANGED ignored
                /\ activeChannels' = [activeChannels EXCEPT ![i].state = "processing"]
                /\ calls' = IF existingCall # NULL \/ store = "callFails"
                            THEN calls ELSE created.rows
                /\ jobs' = IF store = "ok"
                           THEN createTranscription(jobs, callId,
                                                    RecordingPath(recordingName))
                           ELSE jobs
                /\ triggered' = IF store = "ok"
                                THEN triggered \cup {Len(jobs) + 1}
                                ELSE triggered
                /\ nPlay' = nPlay + 1
                /\ inflight' = inflight \cup
                                 {Command("goodbye", c, nPlay + 1, recordingName)}
    /\ UNCHANGED <<outsidePipe, recordings, ptime, nStart, shut, limits>>

\* The goodbye playback has settled: the 2 s timer is set, or the channel
\* is hung up at once.
GoodbyeDone(t, ok) ==
    /\ t \in inflight /\ t.kind = "goodbye"
    /\ inflight' = IF ok
                   THEN (inflight \ {t}) \cup
                            {Command("goodbyeTimer", t.c, t.n, t.arg)}
                   ELSE inflight \ {t}
    /\ issued' = IF ok THEN NULL ELSE Hangup(t.c, "normal")
    /\ activeChannels' = IF ok THEN activeChannels
                         ELSE hangupChannel(activeChannels, t.c)
    /\ UNCHANGED <<pipeRest, recordings, triggered, ptime, nStart, nPlay,
                   nOther>>

GoodbyeTimer(t) ==
    /\ t \in inflight /\ t.kind = "goodbyeTimer"
    /\ inflight' = inflight \ {t}
    /\ issued' = Hangup(t.c, "normal")
    /\ activeChannels' = hangupChannel(activeChannels, t.c)
    /\ UNCHANGED <<pipeRest, recordings, triggered, ptime, nStart, nPlay,
                   nOther>>

\* handleStasisEnd: activeChannels.delete(channelId).  The iterator of a
\* for...of loop over the Map stays where it is among the entries left.
handleStasisEnd(c) ==
    /\ CanReceive
    /\ nOther' = IF Find(activeChannels, c) = 0 THEN nOther ELSE nOther + 1
    /\ activeChannels' = MapDelete(activeChannels, c)
    /\ shut' = IF Find(activeChannels, c) \in 1..shut.pos
               THEN [shut EXCEPT !.pos = @ - 1] ELSE shut
    /\ issued' = NULL
    /\ UNCHANGED <<outsidePipe, calls, jobs, limits, ignored, inflight, recordings,
                   triggered, ptime, nStart, nPlay>>

\* (disconnect hanging up the first session only)
LoopHasNext_firstOnly(s, m) == s.pos < Len(m) /\ s.pos = 0

\* The iterator of `for (const [channelId, data] of this.activeChannels)`
\* has an entry left: Map iterators are live, an entry added during the
\* loop is visited too.
LoopHasNext(s, m) == s.pos < Len(m)

\* The for...of loop of disconnect() at its iterator's next(): the entry
\* after the ones passed, added before or during the loop, gets
\* `await this.hangupChannel(data.channel, 'shutdown')`; when there is none
\* the loop is over, this.ari.stop() closes the WebSocket and disconnect()
\* returns.
NextOfLoop(s, pending) ==
    IF LoopHasNext(s, activeChannels)
    THEN LET c == activeChannels[s.pos + 1].channelId IN
         /\ shut' = [s EXCEPT !.phase = "hangup", !.pos = @ + 1,
                              !.attempted = @ \cup {c}]
         /\ issued' = Hangup(c, "shutdown")
         /\ inflight' = pending \cup
                          {Command("shutdownHangup", c, 0, NoRecording)}
         /\ activeChannels' = hangupChannel(activeChannels, c)
    ELSE /\ shut' = [s EXCEPT !.phase = "done"]
         /\ issued' = NULL
         /\ inflight' = pending
         /\ UNCHANGED activeChannels

\* ARIClient.disconnect() up to its first await (what it does to the
\* supervisor's fields is ARI_disconnect).
disconnect ==
    /\ shut.phase = "no"
    /\ NextOfLoop(shut, inflight)
    /\ UNCHANGED <<outsidePipe, calls, jobs, limits, ignored, recordings, triggered,
                   ptime, nStart, nPlay, nOther>>

\* The channel.hangup of the loop has settled; the catch of hangupChannel
\* swallows its error (and the loop has a catch of its own), so the loop
\* goes on either way.
ShutdownHangupDone(t, ok) ==
    /\ t \in inflight /\ t.kind = "shutdownHangup"
    /\ shut.phase = "hangup"
    /\ NextOfLoop(shut, inflight \ {t})
    /\ UNCHANGED <<outsidePipe, calls, jobs, limits, ignored, recordings, triggered,
                   ptime, nStart, nPlay, nOther>>

NextPipeline ==
    \/ \E c \in Channels : handleStasisStart(c)
    \/ \E t \in inflight, ok \in BOOLEAN : AnswerDone(t, ok)
    \/ \E t \in inflight, ok \in BOOLEAN : PlayDone(t, ok)
    \/ \E p \in 1..nPlay, t \in 0..MaxAriEvents : handlePlaybackFinished(p, t)
    \/ \E t \in inflight, ok \in BOOLEAN : BeepDone(t, ok)
    \/ \E t \in inflight, ok \in BOOLEAN : RecordDone(t, ok)
    \/ \E t \in inflight : Watchdog(t)
    \/ \E r \in recordings, store \in StoreOutcomes :
          handleRecordingFinished(r, store)
    \/ \E t \in inflight, ok \in BOOLEAN : GoodbyeDone(t, ok)
    \/ \E t \in inflight : GoodbyeTimer(t)
    \/ \E c \in Channels : handleStasisEnd(c)

\* ------------------------------------------------------------ specifications

InitTrackerRun == InitTracker /\ DefaultSupervisor /\ InitJobs /\ InitPipeline

SpecTracker == InitTrackerRun /\ [][NextTracker]_vars

InitDialRun ==
    /\ InitTracker /\ DefaultSupervisor /\ InitJobs /\ InitSessions
    /\ limits = DialLimits

SpecDial == InitDialRun /\ [][NextDial]_vars

InitSupervisorRun ==
    InitTracker /\ InitSupervisor /\ InitJobs /\ InitPipeline

SpecSupervisor == InitSupervisorRun /\ [][NextSupervisor]_vars

\* The timers the clients set do fire, and a shutdown reaches its
\* process.exit; whether and when the servers answer is up to them.
FairSupervisor ==
    /\ SpecSupervisor
    /\ WF_vars(\E current \in BOOLEAN : AMI_timerFire(current))
    /\ WF_vars(\E current \in BOOLEAN : ARI_timerFire(current))
    /\ WF_vars(\E i \in DOMAIN amiConns : AMI_onTimeout(i))
    /\ WF_vars(ARI_disconnect) /\ WF_vars(ProcessExit)

InitJobsRun ==
    InitTracker /\ DefaultSupervisor /\ InitJobs /\ InitPipeline

SpecJobs == InitJobsRun /\ [][NextJobs]_vars

InitPipelineRun ==
    InitTracker /\ DefaultSupervisor /\ InitJobs /\ InitPipeline

SpecPipeline == InitPipelineRun /\ [][NextPipeline]_vars

\* The pipeline with a shutdown of the gateway at any moment.
NextShutdown ==
    \/ NextPipeline
    \/ disconnect
    \/ \E t \in inflight, ok \in BOOLEAN : ShutdownHangupDone(t, ok)

InitShutdownRun ==
    /\ InitTracker /\ DefaultSupervisor /\ InitJobs /\ InitSessions
    /\ limits = ShutdownLimits

SpecShutdown == InitShutdownRun /\ [][NextShutdown]_vars

InitUnmatchedRun ==
    /\ InitTracker /\ DefaultSupervisor /\ InitJobs /\ InitSessions
    /\ limits = UnmatchedLimits

\* The pipeline, the events without a session kept.
SpecUnmatched == InitUnmatchedRun /\ [][NextPipeline]_vars

\* A shutdown at any moment, and the recording watchdogs do fire.
FairShutdown ==
    /\ SpecShutdown
    /\ WF_vars(\E t \in inflight : Watchdog(t))

\* The timers the pipeline sets do fire; whether and when the server
\* answers a command is up to the server.
FairPipeline ==
    /\ SpecPipeline
    /\ WF_vars(\E t \in inflight : Watchdog(t))
    /\ WF_vars(\E t \in inflight : GoodbyeTimer(t))


\* ---------------------------------------------------------------- claims

\* C1: after channel-created (one or more times), state-changed(answered),
\* hangup for a uniqueId, once all handlers have finished the store holds
\* exactly one record for it and its state is 'ended'; no uniqueId ever has
\* two records, and a duplicate channel-created resolves to the existing
\* record's id without an error.
C1_OneEndedRecord ==
    /\ \A u \in UniqueIds :
          /\ Cardinality(RowsOf(calls, u)) <= 1
          /\ (mq = <<>> /\ delivered[u] = "ended") =>
                /\ Cardinality(RowsOf(calls, u)) = 1
                /\ \A i \in RowsOf(calls, u) : calls[i].call_state = "ended"
    /\ \A k \in DOMAIN mq :
          (mq[k].kind = "newchannel" /\ mq[k].pc \in {"nc_set", "nc_log", "emit"})
            => /\ RowsOf(calls, mq[k].uid) # {}
               /\ mq[k].callId =
                    Some(Val(getCallByUniqueId(calls, mq[k].uid)).id)
    /\ "newchannel" \notin errors

C1_Witness ==
    \E u \in UniqueIds :
        /\ mq = <<>>
        /\ delivered[u] = "ended"
        /\ u \in resolved
        /\ \E i \in RowsOf(calls, u) : calls[i].call_state = "ended"

\* C2: a record that a hangup ended stores durationSeconds = endTime -
\* answerTime in whole seconds when it was answered and 0 when it was not,
\* and never a negative duration.
C2_DurationIsEndMinusAnswer ==
    \A i \in DOMAIN calls :
        calls[i].call_state = "ended" =>
            /\ calls[i].duration_seconds =
                 Some(IF calls[i].answer_time = NULL THEN 0
                      ELSE Val(calls[i].end_time) - Val(calls[i].answer_time))
            /\ Val(calls[i].duration_seconds) >= 0

MicrotaskStep == mq # <<>> /\ mq' # mq /\ ~inChunk'

\* C3: a uniqueId for which no channel-created was delivered has no record
\* and no cache entry, and a step of a hangup handler whose uniqueId has no
\* record changes no record, no cache entry and raises nothing.
C3_UnknownHangupNoOp ==
    /\ [](\A u \in UniqueIds :
            delivered[u] \in {"none", "untracked"} =>
                RowsOf(calls, u) = {} /\ activeCalls[u] = NULL)
    /\ [][(MicrotaskStep /\ Head(mq).kind = "hangup"
                         /\ RowsOf(calls, Head(mq).uid) = {})
            => UNCHANGED <<calls, callEvents, activeCalls, errors>>]_vars

C3_Witness ==
    /\ mq # <<>>
    /\ Head(mq).kind = "hangup" /\ Head(mq).pc = "hu_get"
    /\ Head(mq).call = NULL
    /\ RowsOf(calls, Head(mq).uid) = {}
    /\ calls # <<>>
    /\ \E u \in UniqueIds : activeCalls[u] # NULL

\* The entry of channel c in the session index, if any.
SessionOf(m, c) == IF Find(m, c) = 0 THEN NULL ELSE Some(m[Find(m, c)])
\* The place of a state in the pipeline's order of states.
Rank(state) ==
    CASE state = "started" -> 0
      [] state = "answered" -> 1
      [] state = "recording" -> 2
      [] state = "processing" -> 3
\* The channels whose entry a step changes.
ChangedSessions ==
    {c \in Channels : SessionOf(activeChannels', c) # SessionOf(activeChannels, c)}

\* C4: the state of a session (the entry one StasisStart created) never
\* moves back and never skips a state of started, answered (with its
\* prompt), recording, processing.
C4_StateOnlyAdvances ==
    [][\A i \in DOMAIN activeChannels, j \in DOMAIN activeChannels' :
         activeChannels[i].sid = activeChannels'[j].sid =>
            Rank(activeChannels'[j].state) - Rank(activeChannels[i].state)
                \in {0, 1}]_vars

\* C5: a PlaybackFinished or RecordingFinished event changes at most one
\* session, and only one that holds the event's key: the playback id as
\* currentPlayback with pendingRecording set, or the recording name.
C5_OnlyKeyHolderAdvances ==
    [][/\ \A p \in 1..nPlay, t \in {1, ptime, ptime + 1} :
            handlePlaybackFinished(p, t) =>
               /\ Cardinality(ChangedSessions) <= 1
               /\ \A c \in ChangedSessions :
                     /\ SessionOf(activeChannels, c) # NULL
                     /\ Val(SessionOf(activeChannels, c)).currentPlayback = p
                     /\ Val(SessionOf(activeChannels, c)).pendingRecording
       /\ \A r \in recordings, store \in StoreOutcomes :
            handleRecordingFinished(r, store) =>
               /\ Cardinality(ChangedSessions) <= 1
               /\ \A c \in ChangedSessions :
                     /\ SessionOf(activeChannels, c) # NULL
                     /\ Val(SessionOf(activeChannels, c)).recordingName = r]_vars

C5_Witness ==
    \E i, j \in DOMAIN activeChannels :
        /\ activeChannels[i].state = "processing"
        /\ activeChannels[j].state = "answered"
        /\ activeChannels[j].pendingRecording
        /\ activeChannels[j].currentPlayback # activeChannels[i].currentPlayback
        /\ activeChannels[j].recordingName # activeChannels[i].recordingName

\* What getStatus() and the health report read.
Connected(c) == sup[c].isConnected
\* The handle the client holds: this.ami, this.ari.
Handle(c) == IF c = "ami" THEN amiCur ELSE ariCur
\* stop() has returned.
Stopped(c) == IF c = "ami" THEN ~sup[c].shouldReconnect ELSE ariStop = "done"
\* Every attempt so far has failed and the limit of three is configured.
AllFailed(c) ==
    /\ maxReconnectAttempts = ConfiguredMaxAttempts
    /\ ~everConnected[c]
    /\ sup[c].shouldReconnect
\* A step that schedules a retry.
Schedules(c) ==
    \/ sup'[c].reconnectAttempts = sup[c].reconnectAttempts + 1
    \/ ~sup[c].reconnectTimer /\ sup'[c].reconnectTimer

\* C6: with maxAttempts = 3 and every connection attempt failing, the
\* supervisor schedules a retry after each of the first three failures and
\* none after that; from the third failure on it reports attempt 3 and
\* connected = false.
C6_StopsAfterMaxAttempts ==
    /\ [](\A c \in Clients :
            AllFailed(c) =>
                /\ ~Connected(c)
                /\ sup[c].reconnectAttempts =
                      IF failures[c] < ConfiguredMaxAttempts
                      THEN failures[c] ELSE ConfiguredMaxAttempts)
    /\ [][\A c \in Clients :
            (AllFailed(c) /\ failures[c] >= ConfiguredMaxAttempts)
                => ~Schedules(c)]_vars

C6_Witness ==
    \E c \in Clients :
        /\ AllFailed(c)
        /\ failures[c] > ConfiguredMaxAttempts
        /\ sup[c].reconnectAttempts = ConfiguredMaxAttempts
        /\ ~sup[c].reconnectTimer
        /\ ~Connected(c)

\* C7: once stop() has been called the pending retry timer is cancelled,
\* and from then on no retry timer is pending or scheduled and no
\* connection attempt is started.
C7_NoRetryAfterStop ==
    /\ [](\A c \in Clients : ~sup[c].shouldReconnect => ~sup[c].reconnectTimer)
    /\ [][\A c \in Clients :
            ~sup[c].shouldReconnect =>
                /\ started'[c] = started[c]
                /\ ~Schedules(c)]_vars

C7_Witness ==
    \E c \in Clients :
        /\ ~sup[c].shouldReconnect
        /\ stopInfo[c].cancelled
        /\ stopInfo[c].late
        /\ failures[c] > 1

\* C8: a stopped supervisor is never connected again and holds no
\* connection handle, also when stop() came while an attempt was in flight.
C8_NeverResurrected ==
    \A c \in Clients : Stopped(c) => ~Connected(c) /\ Handle(c) = 0
\* C9: when retryFailed() has ended and the store writes it started have
\* run, it has returned normally and every job that was pending when it was
\* called is completed or failed.
C9_RetryLeavesNoPending ==
    (retryState \in {"returned", "rejected"} /\ retrySnapshot # {} /\ jq = <<>>) =>
        /\ retryState = "returned"
        /\ \A i \in retrySnapshot :
              jobs[i].transcription_status \in {"completed", "failed"}

\* C10: a job's status changes only from pending to processing and from
\* processing to completed or failed.
C10_StatusOnlyAdvances ==
    [][\A i \in DOMAIN jobs :
         LET a == jobs[i].transcription_status
             b == jobs'[i].transcription_status
         IN  a # b =>
               \/ a = "pending" /\ b = "processing"
               \/ a = "processing" /\ b \in {"completed", "failed"}]_vars

\* C11: the store write of completeTranscription or failTranscription for a
\* job that is not in 'processing' leaves the job's status, text and error
\* message as they were.
C11_NoOpUnlessProcessing ==
    [][(/\ StoreWrite
        /\ Head(jq).op \in {"completed", "failed"}
        /\ Head(jq).id \in DOMAIN jobs
        /\ jobs[Head(jq).id].transcription_status # "processing")
            => jobs'[Head(jq).id] = jobs[Head(jq).id]]_vars

\* The rejections nothing handles: processRecording neither awaits the
\* promises of its repository calls nor attaches a handler to them, so they
\* reach process.on('unhandledRejection').
unhandledRejections == {r \in rejections : r.by = "processRecording"}

\* An invocation of processRecording for the job has returned and nothing
\* of the job runner is pending.
Settled(id) ==
    /\ jq = <<>>
    /\ \A d \in delays : d.id # id
    /\ \E r \in results : r.id = id

\* C12: when a repository call made by processRecording has failed, the job
\* ends 'failed' with the error message, the invocation returns a failure
\* result, and no rejection is left unhandled.
C12_FailureEndsFailed ==
    /\ unhandledRejections = {}
    /\ \A r \in rejections :
          (r.by = "processRecording" /\ r.id \in DOMAIN jobs /\ Settled(r.id)) =>
             /\ jobs[r.id].transcription_status = "failed"
             /\ jobs[r.id].error_message # NULL
             /\ \E x \in results : x.id = r.id /\ ~x.success

FailingSteps == {"answer", "play", "record"}

\* A step in which command t is found to have failed.
CommandFails(t) ==
    \/ t.kind = "answer" /\ AnswerDone(t, FALSE)
    \/ t.kind = "play" /\ PlayDone(t, FALSE)
    \/ t.kind = "record" /\ RecordDone(t, FALSE)

\* C14: the step that finds an answer, play or record command failed issues
\* a hangup for that channel whose reason is the reason of no other failing
\* step, and issues no command of the failed kind for the channel again.
C14_FailureHangsUpWithStepReason ==
    [][\A t \in inflight :
         CommandFails(t) =>
            /\ issued' = Hangup(t.c, FailureReason(t.kind))
            /\ \A k \in FailingSteps \ {t.kind} :
                  issued' # Hangup(t.c, FailureReason(k))
            /\ \A u \in inflight' \ inflight :
                  ~(u.kind = t.kind /\ u.c = t.c)]_vars

\* The place of a call_state on the path initiated -> answered -> ended.
CallStateRank(state) ==
    CASE state = "initiated" -> 1
      [] state = "in_stasis" -> 1
      [] state = "answered" -> 2
      [] state = "ended" -> 3

\* C15: no step moves a call record back on initiated -> answered -> ended;
\* a record that is 'ended' stays 'ended' whatever event comes later.
C15_CallStateMonotonic ==
    [][\A i \in DOMAIN calls :
         /\ CallStateRank(calls'[i].call_state)
               >= CallStateRank(calls[i].call_state)
         /\ calls[i].call_state = "ended" => calls'[i].call_state = "ended"]_vars

\* C13: the process exits only through a shutdown that SIGINT or SIGTERM
\* started, whatever connection error either client reports.
C13_ExitOnlyBySignal ==
    exit # NULL => Val(shutdown).by = "signal"

\* The limit is configured and reached.
Exhausted(c) ==
    maxReconnectAttempts > 0 /\ sup[c].reconnectAttempts >= maxReconnectAttempts

\* A step in which the connection the client holds and reports as
\* connected is closed by the other side.
Drops(c) ==
    /\ Connected(c) /\ Handle(c) # 0
    /\ IF c = "ami"
       THEN amiConns[amiCur].st = "open" /\ AMI_onClose(amiCur)
       ELSE ariClients[ariCur].ws = "open" /\ ARI_wsClose(ariCur)

\* C16: when the established connection of a supervisor that is neither
\* stopped nor exhausted drops, the step sets connected = false, emits
\* 'disconnected' and leaves a retry timer pending; and a pending retry
\* timer leads to a new connection attempt unless the supervisor is stopped
\* first.
C16_DropSchedulesRetry ==
    /\ [][\A c \in Clients :
            (Drops(c) /\ sup[c].shouldReconnect /\ ~Exhausted(c)) =>
               /\ ~Connected(c)'
               /\ emitted' = <<"disconnected">>
               /\ sup'[c].reconnectTimer]_vars
    /\ \A c \in Clients : \A n \in 0..(MaxConns - 1) :
          (sup[c].reconnectTimer /\ started[c] = n)
              ~> (started[c] > n \/ ~sup[c].shouldReconnect)

\* An attempt of the client is waiting for the server's answer, and no
\* shutdown is under way.
Pending(c) ==
    /\ Alive /\ shutdown = NULL
    /\ IF c = "ami"
       THEN \E i \in DOMAIN amiConns :
               amiConns[i].st = "connecting" /\ amiConns[i].timeout
       ELSE ariPending > 0

\* C17: an attempt that gets no answer does not stay pending for ever, and
\* the step that ends it for lack of an answer counts as a failure and
\* schedules a retry like any other failure.
C17_TimeoutIsFailure ==
    /\ \A c \in Clients : Pending(c) ~> ~Pending(c)
    /\ [][\A i \in DOMAIN amiConns :
            (AMI_onTimeout(i) /\ ~Connected("ami")) =>
               /\ failures'["ami"] = failures["ami"] + 1
               /\ (sup["ami"].shouldReconnect /\ ~Exhausted("ami"))
                     => sup'["ami"].reconnectTimer]_vars

\* C18: at most one retry timer is pending per supervisor, and it is the
\* one this.reconnectTimer refers to.
C18_OneRetryTimer ==
    \A c \in Clients :
        /\ sup[c].timers <= 1
        /\ sup[c].timers = IF sup[c].reconnectTimer THEN 1 ELSE 0

\* A retry was scheduled while another was pending: the connection timeout
\* scheduled one, the same attempt connected late and then closed, and no
\* timer has fired.
C18_Witness ==
    /\ followed = "ami"
    /\ started["ami"] = 1 /\ failures["ami"] = 1
    /\ everConnected["ami"] /\ amiConns[1].st = "closed"
    /\ sup["ami"].shouldReconnect
    /\ sup["ami"].reconnectTimer /\ sup["ami"].timers = 1

\* The attempts in flight and the live connections of a client.
Live(c) ==
    IF c = "ami"
    THEN Cardinality({i \in DOMAIN amiConns :
                         amiConns[i].st \in {"connecting", "open"}})
    ELSE ariPending
           + Cardinality({i \in DOMAIN ariClients : ariClients[i].ws = "open"})

\* C19: a supervisor has at most one connection attempt or live connection
\* at any time.
C19_OneAttemptAtATime ==
    \A c \in Clients : Live(c) <= 1

\* getStatus(): what the consumers of a client can read.
getStatus(c) ==
    [connected |-> sup[c].isConnected,
     reconnectAttempts |-> sup[c].reconnectAttempts]

\* A failure is reported to a supervisor that has reached its limit.
ExhaustedFailure(c) ==
    /\ sup[c].shouldReconnect /\ Exhausted(c)
    /\ failures'[c] = failures[c] + 1

\* C20: the step in which a failure meets the reached limit schedules no
\* retry, keeps the process running, and shows its consumers that the
\* supervisor has given up: by an emitted event or by a change of what
\* getStatus() returns.
C20_ExhaustedIsSurfaced ==
    [][\A c \in Clients :
         ExhaustedFailure(c) =>
            /\ ~Schedules(c)
            /\ exit' = NULL
            /\ (emitted' # <<>> \/ getStatus(c)' # getStatus(c))]_vars

\* global.amiClient / global.ariClient as GET /status reads them: index.js
\* keeps its clients in this.amiClient and this.ariClient of the gateway
\* object, and nothing assigns the properties of `global`.
global == [c \in Clients |-> NULL]

\* GET /status: global.<c>Client?.getStatus?.() || { connected: false }
statusResponse(c) ==
    IF global[c] = NULL THEN [connected |-> FALSE]
    ELSE getStatus(Val(global[c]))

\* C21: what GET /status reports for a supervisor is its connection state:
\* connected is true exactly when the supervisor's isConnected is, and the
\* for a connected supervisor the response is what its getStatus() returns.
C21_StatusReportsConnection ==
    \A c \in Clients :
        /\ statusResponse(c).connected = sup[c].isConnected
        /\ sup[c].isConnected => statusResponse(c) = getStatus(c)

\* handleRecordingFinished has just set the session of channel c to
\* 'processing' and is at `await data.channel.play(vm-goodbye)`.
EnteredProcessing(c) ==
    /\ SessionOf(activeChannels, c) # NULL
    /\ Val(SessionOf(activeChannels, c)).state = "processing"
    /\ \E t \in inflight : t.kind = "goodbye" /\ t.c = c

\* C22: a session that has reached 'processing' gets a hangup command for
\* its channel, whatever becomes of the goodbye playback command and of
\* the store calls, and without waiting for the transcription.
C22_ProcessingLeadsToHangup ==
    \A c \in Channels : EnteredProcessing(c) ~> (issued = Hangup(c, "normal"))

\* C23: the entry of a channel leaves the session index only in the step
\* that handles the channel's StasisEnd: not when a command fails, a hangup
\* command is sent, a recording finishes or the gateway shuts down; so a
\* session in 'processing' stays until its StasisEnd.
C23_RemovedOnlyBySessionEnd ==
    [][\A c \in Channels :
         (Find(activeChannels, c) # 0 /\ Find(activeChannels', c) = 0)
            => handleStasisEnd(c)]_vars

C23_Witness ==
    /\ shut.phase = "done"
    /\ \E i \in DOMAIN activeChannels :
          /\ activeChannels[i].state = "processing"
          /\ activeChannels[i].channelId \in shut.attempted

\* The segments of its handler a suspended task has run.  A channel-created
\* handler that met the UNIQUE error goes through the lookup (nc_select,
\* nc_return, then t.call is set) before it reaches nc_set.
Segments(t) ==
    CASE t.pc \in {"nc_insert", "ns_update", "hu_db"} -> 0
      [] t.pc \in {"nc_select", "ns_get", "hu_select"} -> 1
      [] t.pc \in {"nc_return", "ns_log", "hu_update"} -> 2
      [] t.pc = "nc_set" -> IF t.call = NULL THEN 1 ELSE 3
      [] t.pc = "nc_log" -> IF t.call = NULL THEN 2 ELSE 4
      [] t.pc = "hu_get" -> 3
      [] t.pc = "hu_log" -> 4
      [] t.pc = "hu_delete" -> 5
      [] OTHER -> IF t.kind = "newchannel" /\ t.call # NULL THEN 5 ELSE 3

\* The handlers of a chunk all start before any of them goes on, and then
\* take turns, one segment each: the task at place k of the queue was
\* received before the one at its head when it has run more segments.
ReceivedBeforeHead(k) == Segments(mq[k]) > Segments(Head(mq))

\* The suspended task will still write to the store or the cache.
EffectsLeft(t) ==
    \/ t.pc \in {"nc_insert", "nc_select", "nc_return", "nc_set", "nc_log",
                  "ns_log", "hu_log", "hu_delete"}
    \/ t.pc = "ns_update" /\ RowsOf(calls, t.uid) # {}
    \/ t.pc = "hu_update" /\ t.call # NULL

\* The step writes to the store or the cache.
Effect == <<calls, callEvents, activeCalls>>' # <<calls, callEvents, activeCalls>>

\* C24: the events of one uniqueId are applied in the order received: when
\* a handler writes to the store or the cache, no handler of an earlier
\* event for the same uniqueId has writes left to do.
C24_AppliedInReceiptOrder ==
    [][(mq # <<>> /\ Effect) =>
          \A k \in 2..Len(mq) :
             (mq[k].uid = Head(mq).uid /\ ReceivedBeforeHead(k))
                => ~EffectsLeft(mq[k])]_vars

\* The ids of the rows the query of getPendingTranscriptions returns.
Selected(rows) ==
    LET ids == getPendingTranscriptions(rows).value
    IN  {ids[k] : k \in DOMAIN ids}

\* The jobs that have not reached 'completed' or 'failed'.
NonTerminal(rows) ==
    {i \in DOMAIN rows :
        rows[i].transcription_status \in {"pending", "processing"}}

\* C25: when retryFailed() is called, the rows it fetches are the jobs in
\* 'pending' and the jobs in 'processing', and no other.
C25_RetrySelectsNonTerminal ==
    [][retryFailed => Selected(jobs) = NonTerminal(jobs)]_vars

\* The processRecording invocations of retryFailed() that have not returned.
BatchInFlight == {d \in delays : d.batch}

\* processRecording has returned for job id.
Processed(id) == \E r \in results : r.id = id

\* C26: retryFailed() processes the jobs it selected one at a time, oldest
\* first: at most one of its processRecording invocations is in flight,
\* the selected jobs older than the one in flight have been processed and
\* the younger ones wait, and when it is over every selected job has been
\* processed.
C26_BatchOneAtATime ==
    /\ Cardinality(BatchInFlight) <= 1
    /\ \A d \in BatchInFlight :
          /\ \A i \in retrySnapshot : i < d.id => Processed(i)
          /\ \A k \in DOMAIN d.rest : d.rest[k] > d.id
    /\ retryState \in {"returned", "rejected"} =>
          \A i \in retrySnapshot : Processed(i)

\* disconnect() closes the control connection in this step.
Closes == shut.phase # "done" /\ shut'.phase = "done"

\* C27: when disconnect() closes the control connection, its loop has
\* passed every entry of the session index and called hangupChannel for
\* its channel; after a hangup that failed the loop goes on with the next
\* entry, or closes the connection when there is none: no error ends
\* disconnect() early.
C27_ShutdownHangsUpAll ==
    [][/\ Closes =>
            /\ shut'.pos = Len(activeChannels')
            /\ \A i \in DOMAIN activeChannels' :
                  activeChannels'[i].channelId \in shut'.attempted
       /\ \A t \in inflight :
            ShutdownHangupDone(t, FALSE) =>
               IF shut.pos < Len(activeChannels)
               THEN /\ shut'.phase = "hangup"
                    /\ issued' = Hangup(activeChannels[shut.pos + 1].channelId,
                                        "shutdown")
               ELSE shut'.phase = "done"]_vars

C27_Witness ==
    /\ shut.phase = "done"
    /\ Len(activeChannels) = 2
    /\ \A i \in DOMAIN activeChannels :
          activeChannels[i].channelId \in shut.attempted

\* The sessions a RecordingFinished event for recording r is handled for.
TrackedBy(r) ==
    {activeChannels[i].channelId : i \in
        {k \in DOMAIN activeChannels :
            RecordingMatches(activeChannels[k], r)}}

\* C28: after RecordingFinished is handled for a tracked session of channel
\* c, with the store calls returning, the store has exactly one call
\* record with unique_id = c (the one it had, unchanged, or else a new one
\* in 'in_stasis') and one more transcription, in 'pending', that refers
\* to that record's id and to the file of the recording.
C28_RecordingCreatesJob ==
    [][\A r \in recordings : \A c \in TrackedBy(r) :
         handleRecordingFinished(r, "ok") =>
            /\ Cardinality(RowsOf(calls', c)) = 1
            /\ IF RowsOf(calls, c) # {}
               THEN calls' = calls
               ELSE /\ Len(calls') = Len(calls) + 1
                    /\ SubSeq(calls', 1, Len(calls)) = calls
                    /\ calls'[Len(calls')].call_state = "in_stasis"
            /\ Len(jobs') = Len(jobs) + 1
            /\ SubSeq(jobs', 1, Len(jobs)) = jobs
            /\ LET job == jobs'[Len(jobs')] IN
                 /\ job.transcription_status = "pending"
                 /\ job.call_id = Some(Val(getCallByUniqueId(calls', c)).id)
                 /\ job.recording_path =
                      <<"/var/spool/asterisk/recording/", r, ".wav">>]_vars

C28_Witness ==
    \E c \in Channels :
        /\ Cardinality(RowsOf(calls, c)) = 1
        /\ Len(jobs) = 2
        /\ \A j \in DOMAIN jobs :
              /\ jobs[j].call_id = Some(Val(getCallByUniqueId(calls, c)).id)
              /\ jobs[j].transcription_status = "pending"

\* The handler of a hangup for a uniqueId it found in the cache returns in
\* this step, and no other hangup for that uniqueId is being handled.
HangupFinishes ==
    /\ mq # <<>> /\ Head(mq).kind = "hangup"
    /\ Head(mq).pc \in {"hu_delete", "emit"}
    /\ mq' = Tail(mq)
    /\ \A k \in 2..Len(mq) :
          ~(mq[k].kind = "hangup" /\ mq[k].uid = Head(mq).uid)

NonAnsweredStateChanged ==
    \E u \in UniqueIds, st \in ChannelStates \ {6} : handleNewState(u, st)

DialOrDtmf ==
    \/ \E u \in UniqueIds, subevent \in DialSubEvents : handleDial(u, subevent)
    \/ dl_log
    \/ mq # <<>> /\ Head(mq).kind = "dial" /\ emit
    \/ \E u \in UniqueIds : handleDTMF(u)

\* C30: a state-changed event whose state is not 6 leaves state and
\* answerTime of every record as they are and starts no handler code that
\* could write later; no step of a dial or DTMF handler changes a record.
C30_OtherEventsLeaveRecords ==
    [][/\ NonAnsweredStateChanged =>
            /\ mq' = mq
            /\ Len(calls') = Len(calls)
            /\ \A i \in DOMAIN calls :
                  /\ calls'[i].call_state = calls[i].call_state
                  /\ calls'[i].answer_time = calls[i].answer_time
       /\ DialOrDtmf =>
            /\ calls' = calls
            /\ \A k \in 1..Len(mq') : k > Len(mq) => mq'[k].kind = "dial"]_vars

\* A record sits in state 'initiated', a dial for it has been logged and
\* noted in the cache, and a state-changed(4) and a dial were its last
\* events: three events in all, none of which answered it.
C30_Witness ==
    \E u \in UniqueIds :
        /\ activeCalls[u] # NULL
        /\ Val(activeCalls[u]).dest # NULL
        /\ <<Val(Val(activeCalls[u]).id), "dial">> \in callEvents
        /\ delivered[u] = "other"
        /\ nEvents = 3
        /\ mq = <<>>
        /\ \E i \in DOMAIN calls :
              /\ calls[i].unique_id = u
              /\ calls[i].call_state = "initiated"
              /\ calls[i].answer_time = NULL

\* A command of the handler t belongs to has failed: channel.answer,
\* channel.play, channel.record or the goodbye playback rejected, or the
\* answer continuation found no entry for its channel.
CommandFailure(t) ==
    \/ \E ok \in BOOLEAN :
          AnswerDone(t, ok) /\ (~ok \/ Find(activeChannels, t.c) = 0)
    \/ PlayDone(t, FALSE)
    \/ RecordDone(t, FALSE)
    \/ GoodbyeDone(t, FALSE)

\* The command or timer t settles or fires, one way or the other.
Settles(t) ==
    \/ \E ok \in BOOLEAN : AnswerDone(t, ok)
    \/ \E ok \in BOOLEAN : PlayDone(t, ok)
    \/ \E ok \in BOOLEAN : BeepDone(t, ok)
    \/ \E ok \in BOOLEAN : RecordDone(t, ok)
    \/ Watchdog(t)
    \/ \E ok \in BOOLEAN : GoodbyeDone(t, ok)
    \/ GoodbyeTimer(t)

\* What is awaited or armed for the channels other than c.
OfOthers(pending, c) == {x \in pending : x.c # c}

\* C31: a failed command on a channel leaves every other channel's
\* session as it is, issues nothing but a hangup of its own channel and
\* touches nothing awaited for the others; and while a command of one
\* channel is outstanding, every command or timer of another channel
\* can still settle.
C31_FailureStaysOnItsChannel ==
    /\ [](\A x \in inflight :
            (\E t \in inflight : t.c # x.c) => ENABLED Settles(x))
    /\ [][\A t \in inflight :
            CommandFailure(t) =>
              /\ Len(activeChannels') = Len(activeChannels)
              /\ \A i \in DOMAIN activeChannels :
                    activeChannels[i].channelId # t.c =>
                        activeChannels'[i] = activeChannels[i]
              /\ issued' \in {Hangup(t.c, r) :
                                r \in {"error", "recording_error", "normal"}}
              /\ OfOthers(inflight', t.c) = OfOthers(inflight, t.c)]_vars

\* One channel's record command has just failed while the session of
\* another channel is waiting for its prompt to finish.
C31_Witness ==
    /\ issued = Hangup("u1", "recording_error")
    /\ \E i \in DOMAIN activeChannels :
          /\ activeChannels[i].channelId # "u1"
          /\ activeChannels[i].state = "answered"
    /\ \E x \in inflight : x.c # "u1" /\ x.kind = "play"

\* No session has the playback id, or the recording name, as its key.
NoSessionHasPlayback(playbackId) ==
    \A i \in DOMAIN activeChannels :
        activeChannels[i].currentPlayback # playbackId

NoSessionHasRecording(recordingName) ==
    \A i \in DOMAIN activeChannels :
        activeChannels[i].recordingName # recordingName

\* The step changes no session, no record, no job, awaits and arms
\* nothing and issues no command.
Untouched ==
    /\ UNCHANGED <<activeChannels, calls, jobs, triggered, inflight,
                   recordings, nPlay>>
    /\ issued' = NULL

\* C32: a playback-finished or recording-finished event whose id is no
\* session's key, the session evicted or never there, changes no session,
\* creates no record and no job and issues no command.
C32_UnmatchedEventIgnored ==
    [][/\ \A p \in 1..nPlay :
            NoSessionHasPlayback(p) /\ handlePlaybackFinished(p, ptime + 1)
                => Untouched
       /\ \A r \in recordings, store \in StoreOutcomes :
            NoSessionHasRecording(r) /\ handleRecordingFinished(r, store)
                => Untouched]_vars

\* The session was evicted by its session-end; the recording-finished
\* and a playback-finished event that came afterwards found no session,
\* and there is no record and no job.
C32_Witness ==
    /\ activeChannels = <<>>
    /\ nStart > 0
    /\ \E r \in recordings : <<"RecordingFinished", r>> \in ignored
    /\ \E p \in 1..nPlay : <<"PlaybackFinished", p>> \in ignored
    /\ calls = <<>> /\ jobs = <<>>
    /\ \A x \in inflight : x.kind # "goodbye"

WatchdogArmed(recordingName) ==
    \E t \in inflight : t.kind = "watchdog" /\ t.arg = recordingName

\* A watchdog is armed for a recording of channel c; the stop-recording
\* command for a recording of channel c has just been issued.
ArmedFor(c) ==
    \E t \in inflight : t.kind = "watchdog" /\ t.c = c

StopIssuedFor(c) ==
    \E r \in recordings : r[2] = c /\ issued = Stop(r)

\* C33: a record command that succeeds arms a watchdog, which later
\* issues the stop-recording command for its recording name (or finds the
\* client shut down); the watchdog's firing, whatever has become of the
\* recording and the session, issues no hangup, touches no session and
\* leaves nothing awaited; and the record command follows the beep
\* whether the beep succeeded or not.
C33_WatchdogStopsRecording ==
    /\ [][\A t \in inflight :
            /\ RecordDone(t, TRUE) => WatchdogArmed(t.arg)'
            /\ Watchdog(t) =>
                 /\ issued' \in {Stop(t.arg), NULL}
                 /\ issued' = NULL => shut.phase = "done"
                 /\ UNCHANGED <<activeChannels, calls, jobs>>
                 /\ inflight' = inflight \ {t}
            /\ \A ok \in BOOLEAN :
                 BeepDone(t, ok) =>
                     /\ Command("record", t.c, t.n, t.arg) \in inflight'
                     /\ t.arg \in recordings']_vars
    /\ \A c \in Channels :
          ArmedFor(c) ~> (StopIssuedFor(c) \/ shut.phase = "done")

\* The watchdog has just fired and sent its stop although the session of
\* its recording was evicted before.
C33_Witness ==
    \E r \in recordings :
        /\ issued = Stop(r)
        /\ activeChannels = <<>>
        /\ shut.phase = "no"

\* C34: an answer_time that has been stamped is never changed by a later
\* step, so a repeated state-changed(answered) leaves the first one.
C34_AnswerTimeStampedOnce ==
    [][\A i \in DOMAIN calls :
         calls[i].answer_time # NULL =>
             calls'[i].answer_time = calls[i].answer_time]_vars

\* C35: with no tracker handler mid-execution, every uniqueId in the
\* active-call cache has a record whose state is not 'ended'.
C35_CachedCallsAreLive ==
    mq = <<>> =>
        \A u \in UniqueIds :
            activeCalls[u] # NULL =>
                \E i \in DOMAIN calls :
                    /\ calls[i].unique_id = u
                    /\ calls[i].call_state # "ended"

\* The session with recording name r has had its recording-finished
\* event: handleRecordingFinished has set it to 'processing'.
AlreadyFinished(r) ==
    \E i \in DOMAIN activeChannels :
        /\ activeChannels[i].recordingName = r
        /\ activeChannels[i].state = "processing"

\* C36: a recording-finished event delivered again for a session that is
\* still there creates no second job and starts no second goodbye
\* playback.
C36_OneJobPerSession ==
    [][\A r \in recordings, store \in StoreOutcomes :
         AlreadyFinished(r) /\ handleRecordingFinished(r, store) =>
             /\ jobs' = jobs
             /\ inflight' = inflight]_vars

\* C37: a supervisor that is connected has reconnectAttempts = 0.
C37_ConnectedMeansNoAttempts ==
    \A c \in Clients :
        sup[c].isConnected => sup[c].reconnectAttempts = 0

\* A supervisor is connected after attempts that failed and a retry that
\* its timer started: the counter it had raised is back at 0.
C37_Witness ==
    \E c \in Clients :
        /\ sup[c].isConnected
        /\ sup[c].reconnectAttempts = 0
        /\ failures[c] > 0
        /\ started[c] > 1

\* C38: when processRecording returns success for a job there is, the
\* stored status of the job is 'completed' and the stored text is the
\* transcription it returns.
C38_SuccessMeansStored ==
    [][\A d \in delays, text \in Texts :
         DelayDone(d, text) /\ d.id \in DOMAIN jobs =>
             /\ jobs'[d.id].transcription_status = "completed"
             /\ jobs'[d.id].transcription_text = Some(text)]_vars

\* The commands a step sends for channel c: the hangup or stop-recording
\* it issues, and the answer, play and record commands it starts to await.
CommandsFor(c) ==
    {x \in inflight' \ inflight :
        x.c = c /\ x.kind \in {"answer", "play", "beep", "record", "goodbye"}}
    \cup (IF issued' # NULL /\ Val(issued')[2] = c THEN {issued'} ELSE {})
    \cup (IF /\ issued' # NULL
              /\ Val(issued')[1] = "stop"
              /\ Val(issued')[2][2] = c
           THEN {issued'} ELSE {})

\* C39: a step taken while channel c has no session, its session-end
\* handled and no new StasisStart received, sends no command for c.
C39_NoCommandAfterSessionEnd ==
    [][\A c \in Channels :
         Find(activeChannels, c) = 0 /\ Find(activeChannels', c) = 0
             => CommandsFor(c) = {}]_vars

\* C40: once a record is 'ended', no step changes its end_time,
\* duration_seconds, hangup_cause or hangup_cause_txt: a further hangup
\* for its uniqueId leaves them as they are.
C40_HangupIdempotent ==
    [][\A i \in DOMAIN calls :
         calls[i].call_state = "ended" =>
             /\ calls'[i].end_time = calls[i].end_time
             /\ calls'[i].duration_seconds = calls[i].duration_seconds
             /\ calls'[i].hangup_cause = calls[i].hangup_cause
             /\ calls'[i].hangup_cause_txt = calls[i].hangup_cause_txt]_vars

====
